---- MODULE Spec2Model ----
(***************************************************************************)
(* Ingestion and normalization pipeline of the GIS web application         *)
(* (gis-web-app/src/App.jsx): file upload, the per-format normalizers and  *)
(* the layer store they hand their feature collections to.                 *)
(*                                                                         *)
(* Representation of JavaScript data:                                      *)
(*   - a JS value is a record [t, n, s]: t is its kind ("number", "nan",   *)
(*     "inf", "string", "boolean", "null", "undefined"), n its numeric     *)
(*     payload, s its text (a string, read with Len, Head, Tail, SubSeq);              *)
(*   - a JS object with dynamic keys (a CSV row, a property bag) is a      *)
(*     sequence of [key, val] pairs in insertion order;                    *)
(*   - geometry coordinates are [depth, parts]: depth is the array nesting *)
(*     above a position (Point 0, LineString 1, Polygon 2), parts the      *)
(*     sequences of positions, a position a sequence of JS values.         *)
(***************************************************************************)
EXTENDS Integers, Sequences, FiniteSets, TLC

VARIABLES
    inbox,       \* files of the file-selection event not yet handled
    pending,     \* asynchronous reads / parses in flight (one record per task)
    layers,      \* React state `layers`
    categories,  \* React state `categories`: names in insertion order
    alerts,      \* user-facing alert() notifications, in order
    warns,       \* console.warn diagnostics, each with the file it was logged for
    handed,      \* every call addLayer(name, type, data, category), in order, with its caller
    nextId,      \* source of fresh layer ids (Date.now() + Math.random())
    passes,      \* number of file-selection events handled so far
    selected,    \* every file and shapefile group selected for upload so far
    deleted,     \* ids of the layers the user deleted
    selectedLayer, \* React state `selectedLayer`
    selectedColor,  \* React state `selectedColor`
    activeTool,  \* React state `activeTool` of App
    isDrawing,   \* React state `isDrawing` of DrawTools
    currentPolyline, \* ref `currentPolyline`: the id of a polyline, 0 for null
    drawnItems,  \* ref `drawnItems`: the polylines on the map, [id, points]
    dragging,    \* map.dragging is enabled
    listeners,   \* the map listeners of the last effect run and the values they closed over
    batched,     \* the build batches state updates made in map listeners
    pointer,     \* the mouse: its button and whether it is over the map
    strokes      \* polylines created so far

drawVars == <<activeTool, isDrawing, currentPolyline, drawnItems, dragging, listeners,
              batched, pointer, strokes>>

storeVars == <<inbox, pending, layers, categories, alerts, warns, handed, nextId, passes,
               selected, deleted, selectedLayer, selectedColor>>

vars == <<storeVars, drawVars>>

----------------------------------------------------------------------------
(* JavaScript values and text                                              *)

JsNum(i) == [t |-> "number", n |-> i, s |-> ""]
JsNaN == [t |-> "nan", n |-> 0, s |-> ""]
JsInf(sign) == [t |-> "inf", n |-> sign, s |-> ""]
JsStr(chars) == [t |-> "string", n |-> 0, s |-> chars]
JsBool(b) == [t |-> "boolean", n |-> IF b THEN 1 ELSE 0, s |-> ""]
JsNull == [t |-> "null", n |-> 0, s |-> ""]
JsUndefined == [t |-> "undefined", n |-> 0, s |-> ""]

\* typeof v === 'number'
IsNumberType(v) == v.t \in {"number", "nan", "inf"}
\* Number.isFinite(v)
IsFinite(v) == v.t = "number"
\* JS truthiness: !!v
Truthy(v) ==
    CASE v.t = "number" -> v.n # 0
      [] v.t = "inf" -> TRUE
      [] v.t = "string" -> Len(v.s) > 0
      [] v.t = "boolean" -> v.n = 1
      [] OTHER -> FALSE

DigitChars == {"0", "1", "2", "3", "4", "5", "6", "7", "8", "9"}
HexChars == DigitChars \cup {"a", "b", "c", "d", "e", "f"}
DigitVal(c) ==
    CASE c = "0" -> 0 [] c = "1" -> 1 [] c = "2" -> 2 [] c = "3" -> 3
      [] c = "4" -> 4 [] c = "5" -> 5 [] c = "6" -> 6 [] c = "7" -> 7
      [] c = "8" -> 8 [] c = "9" -> 9 [] c = "a" -> 10 [] c = "b" -> 11
      [] c = "c" -> 12 [] c = "d" -> 13 [] c = "e" -> 14 [] c = "f" -> 15

InfinityText == "Infinity"

\* String.prototype.trim, for the blank character
RECURSIVE TrimLeft(_)
TrimLeft(s) == IF Len(s) > 0 /\ Head(s) = " " THEN TrimLeft(Tail(s)) ELSE s
RECURSIVE TrimRight(_)
TrimRight(s) ==
    IF Len(s) > 0 /\ SubSeq(s, Len(s), Len(s)) = " " THEN TrimRight(SubSeq(s, 1, Len(s) - 1)) ELSE s
Trim(s) == TrimRight(TrimLeft(s))

\* value of a sequence of digits in the given base
RECURSIVE DigitsValue(_, _)
DigitsValue(s, base) ==
    IF Len(s) = 0 THEN 0
    ELSE DigitsValue(SubSeq(s, 1, Len(s) - 1), base) * base + DigitVal(SubSeq(s, Len(s), Len(s)))

AllIn(s, chars) == \A i \in 1..Len(s) : SubSeq(s, i, i) \in chars

\* length of the longest prefix of s made of decimal digits
RECURSIVE DigitPrefixLen(_)
DigitPrefixLen(s) ==
    IF Len(s) > 0 /\ Head(s) \in DigitChars THEN 1 + DigitPrefixLen(Tail(s)) ELSE 0

IsPrefix(p, s) == Len(p) <= Len(s) /\ SubSeq(s, 1, Len(p)) = p

\* Number(text): the whole trimmed text must be a numeric literal
\* (decimal integer with optional sign, 0x hexadecimal, Infinity; "" is 0).
StringToNumber(s) ==
    LET t == Trim(s)
        neg == Len(t) > 0 /\ Head(t) = "-"
        body == IF Len(t) > 0 /\ Head(t) \in {"-", "+"} THEN Tail(t) ELSE t
    IN  IF Len(t) = 0 THEN JsNum(0)
        ELSE IF body = InfinityText THEN JsInf(IF neg THEN -1 ELSE 1)
        ELSE IF Len(body) > 0 /\ AllIn(body, DigitChars)
             THEN JsNum(IF neg THEN 0 - DigitsValue(body, 10) ELSE DigitsValue(body, 10))
        ELSE IF t = body /\ Len(t) > 2 /\ SubSeq(t, 1, 2) = "0x"
                /\ AllIn(SubSeq(t, 3, Len(t)), HexChars)
             THEN JsNum(DigitsValue(SubSeq(t, 3, Len(t)), 16))
        ELSE JsNaN

\* parseFloat(text): the longest numeric prefix after leading blanks
ParseFloatText(s) ==
    LET t == TrimLeft(s)
        neg == Len(t) > 0 /\ Head(t) = "-"
        body == IF Len(t) > 0 /\ Head(t) \in {"-", "+"} THEN Tail(t) ELSE t
        k == DigitPrefixLen(body)
    IN  IF IsPrefix(InfinityText, body) THEN JsInf(IF neg THEN -1 ELSE 1)
        ELSE IF k = 0 THEN JsNaN
        ELSE JsNum(IF neg THEN 0 - DigitsValue(SubSeq(body, 1, k), 10)
                   ELSE DigitsValue(SubSeq(body, 1, k), 10))

\* Number(v)
ToNumber(v) ==
    CASE v.t = "string" -> StringToNumber(v.s)
      [] v.t = "boolean" -> JsNum(v.n)
      [] v.t = "null" -> JsNum(0)
      [] v.t = "undefined" -> JsNaN
      [] OTHER -> v

\* isNaN(v)
IsNaN(v) == ToNumber(v).t = "nan"

\* parseFloat(v): parses String(v); "null", "true", "false", "undefined" and
\* "NaN" have no numeric prefix
ParseFloat(v) ==
    CASE v.t = "string" -> ParseFloatText(v.s)
      [] v.t \in {"number", "inf"} -> v
      [] OTHER -> JsNaN

----------------------------------------------------------------------------
(* JS objects with dynamic keys                                            *)

ObjKeys(obj) == [i \in 1..Len(obj) |-> obj[i].key]
HasKey(obj, k) == \E i \in 1..Len(obj) : obj[i].key = k
\* obj[k], undefined when absent
Get(obj, k) ==
    IF HasKey(obj, k)
    THEN obj[CHOOSE i \in 1..Len(obj) : obj[i].key = k].val
    ELSE JsUndefined
\* obj[k] = v: in place when the key exists, appended otherwise
Put(obj, k, v) ==
    IF HasKey(obj, k)
    THEN [i \in 1..Len(obj) |-> IF obj[i].key = k THEN [key |-> k, val |-> v] ELSE obj[i]]
    ELSE Append(obj, [key |-> k, val |-> v])

\* String.prototype.toUpperCase, letter by letter
UpperChar(c) ==
    CASE c = "a" -> "A" [] c = "b" -> "B" [] c = "c" -> "C" [] c = "d" -> "D"
      [] c = "e" -> "E" [] c = "f" -> "F" [] c = "g" -> "G" [] c = "h" -> "H"
      [] c = "i" -> "I" [] c = "j" -> "J" [] c = "k" -> "K" [] c = "l" -> "L"
      [] c = "m" -> "M" [] c = "n" -> "N" [] c = "o" -> "O" [] c = "p" -> "P"
      [] c = "q" -> "Q" [] c = "r" -> "R" [] c = "s" -> "S" [] c = "t" -> "T"
      [] c = "u" -> "U" [] c = "v" -> "V" [] c = "w" -> "W" [] c = "x" -> "X"
      [] c = "y" -> "Y" [] c = "z" -> "Z" [] OTHER -> c
RECURSIVE ToUpperCase(_)
ToUpperCase(k) == IF Len(k) = 0 THEN "" ELSE UpperChar(Head(k)) \o ToUpperCase(Tail(k))

\* Object.keys(obj).find(key => pred(key)): index of the first match, 0 if none
FindKeyIndex(obj, uppers) ==
    IF \E i \in 1..Len(obj) : ToUpperCase(obj[i].key) \in uppers
    THEN CHOOSE i \in 1..Len(obj) :
            /\ ToUpperCase(obj[i].key) \in uppers
            /\ \A j \in 1..(i - 1) : ToUpperCase(obj[j].key) \notin uppers
    ELSE 0

----------------------------------------------------------------------------
(* Geometry, features, projection                                          *)

Position(x, y) == <<JsNum(x), JsNum(y)>>
PointCoords(pos) == [depth |-> 0, parts |-> <<<<pos>>>>]
LineCoords(positions) == [depth |-> 1, parts |-> <<positions>>]
PolygonCoords(rings) == [depth |-> 2, parts |-> rings]
NoCoords == [depth |-> 0, parts |-> <<>>]
NoGeometry == [type |-> "", hasCoords |-> FALSE, coordinates |-> NoCoords]
Geometry(type, coords) == [type |-> type, hasCoords |-> TRUE, coordinates |-> coords]
Feature(geometry, properties) ==
    [type |-> "Feature", hasGeometry |-> TRUE, geometry |-> geometry,
     hasProperties |-> TRUE, properties |-> properties]
NoCrs == [present |-> FALSE, name |-> ""]

EPSG32632 == "EPSG:32632"
EPSG22391 == "EPSG:22391"
EPSG4326 == "EPSG:4326"
\* proj4.defs(code) is defined: the two projections registered at start-up and
\* the library's built-in EPSG:4326
ProjDefs == {EPSG32632, EPSG22391, EPSG4326}

Clamp(v, lo, hi) == IF v < lo THEN lo ELSE IF v > hi THEN hi ELSE v

\* proj4(sourceCRS, 'EPSG:4326', [x, y]): throws for an unregistered source and
\* for a non-finite coordinate; otherwise the inverse UTM zone 32 projection,
\* here in whole degrees (central meridian 9E, false easting 500000 m, about
\* 111 km per degree; the Clarke 1880 ellipsoid of EPSG:22391 is slightly
\* smaller). An easting further from the central meridian than the inverse
\* series covers (about 16 700 km) gives [Infinity, Infinity] without a throw.
Proj4ToWGS84(code, x, y) ==
    IF code \notin ProjDefs \/ ~IsFinite(x) \/ ~IsFinite(y)
    THEN [threw |-> TRUE, lon |-> x, lat |-> y]
    ELSE IF code = EPSG4326 THEN [threw |-> FALSE, lon |-> x, lat |-> y]
    ELSE IF x.n - 500000 > 16700000 \/ 500000 - x.n > 16700000
    THEN [threw |-> FALSE, lon |-> JsInf(1), lat |-> JsInf(1)]
    ELSE LET perDeg == IF code = EPSG22391 THEN 110000 ELSE 111000
         IN  [threw |-> FALSE,
              lon |-> JsNum(Clamp(9 + ((x.n - 500000) \div perDeg), -180, 180)),
              lat |-> JsNum(Clamp(y.n \div perDeg, -90, 90))]

----------------------------------------------------------------------------
(* Tabular reader: Papa.parse(file, {header, delimiter ';', skipEmptyLines, *)
(* dynamicTyping})                                                          *)

TrueTexts == {"true", "TRUE"}
FalseTexts == {"false", "FALSE"}

\* Papa's FLOAT test, for texts without fraction or exponent:
\* blanks, an optional minus sign, digits, blanks
TestFloat(text) ==
    LET t == Trim(text)
        body == IF Len(t) > 0 /\ Head(t) = "-" THEN Tail(t) ELSE t
    IN  Len(body) > 0 /\ AllIn(body, DigitChars)

\* the value Papa stores for one cell when dynamicTyping is on
DynamicTyping(text) ==
    IF text \in TrueTexts THEN JsBool(TRUE)
    ELSE IF text \in FalseTexts THEN JsBool(FALSE)
    ELSE IF TestFloat(text) THEN ParseFloatText(text)
    ELSE IF text = "" THEN JsNull
    ELSE JsStr(text)

Min(a, b) == IF a < b THEN a ELSE b

\* one record per line: header names as keys, a short line has fewer keys
PapaRow(header, cells) ==
    [i \in 1..Min(Len(header), Len(cells)) |->
        [key |-> header[i], val |-> DynamicTyping(cells[i])]]

RECURSIVE SelectLines(_)
\* skipEmptyLines: a line made of one empty cell is no record
SelectLines(lines) ==
    IF Len(lines) = 0 THEN <<>>
    ELSE IF Head(lines) = <<"">> THEN SelectLines(Tail(lines))
    ELSE <<Head(lines)>> \o SelectLines(Tail(lines))

\* results.data
PapaParse(table) ==
    LET lines == SelectLines(table.lines)
    IN  [i \in 1..Len(lines) |-> PapaRow(table.header, lines[i])]

----------------------------------------------------------------------------
(* Point-table normalizer: processPointData                                *)

XIndex(row) == FindKeyIndex(row, {"X"})
YIndex(row) == FindKeyIndex(row, {"Y"})

\* a filter that compares the column names with 'X' and 'Y' as written
RowPassesCaseSensitive(row) ==
    /\ HasKey(row, "X")
    /\ HasKey(row, "Y")
    /\ ~IsNaN(Get(row, "X"))
    /\ ~IsNaN(Get(row, "Y"))

\* the .filter(row => ...) of processPointData
RowPasses(row) ==
    /\ XIndex(row) # 0
    /\ YIndex(row) # 0
    /\ ~IsNaN(row[XIndex(row)].val)
    /\ ~IsNaN(row[YIndex(row)].val)

\* a name rule whose alias list lacks 'A'
NamePropertyWithoutA(row) ==
    IF Truthy(Get(row, "name")) THEN Get(row, "name")
    ELSE LET nameCol == FindKeyIndex(row, {"SITES", "NAME"})
         IN  IF nameCol # 0 THEN row[nameCol].val
             ELSE JsStr("Unnamed")

\* properties.name of the feature made from a row
NameProperty(row) ==
    IF Truthy(Get(row, "name")) THEN Get(row, "name")
    ELSE LET nameCol == FindKeyIndex(row, {"SITES", "A", "NAME"})
         IN  IF nameCol # 0 THEN row[nameCol].val
             ELSE JsStr("Unnamed")

\* the .map(row => ...) of processPointData: the feature, or null when the
\* projection threw
RowFeature(row) ==
    LET x == ParseFloat(row[XIndex(row)].val)
        y == ParseFloat(row[YIndex(row)].val)
        p == Proj4ToWGS84(EPSG22391, x, y)
        properties == Put(Put(Put(row, "name", NameProperty(row)), "x", x), "y", y)
    IN  IF p.threw THEN [null |-> TRUE, feature |-> Feature(NoGeometry, <<>>)]
        ELSE [null |-> FALSE,
              feature |-> Feature(Geometry("Point", PointCoords(<<p.lon, p.lat>>)),
                                  properties)]

RECURSIVE PointFeatures(_)
\* data.filter(...).map(...).filter(feature => feature !== null)
PointFeatures(data) ==
    IF Len(data) = 0 THEN <<>>
    ELSE LET row == Head(data)
             rest == PointFeatures(Tail(data))
         IN  IF RowPasses(row) /\ ~RowFeature(row).null
             THEN <<RowFeature(row).feature>> \o rest
             ELSE rest

\* the object processPointData hands to addLayer
PointGeoJSON(data) ==
    [type |-> "FeatureCollection", features |-> PointFeatures(data), crs |-> NoCrs]

----------------------------------------------------------------------------
(* Structured-geometry normalizer: processGeoJSON                          *)

\* A parsed JSON document: isObject (an object, not null or a primitive),
\* type ("" when absent), features / geometries with their Array.isArray
\* flags, the members of a Feature (geometry, properties) and of a bare
\* geometry (hasCoords, coordinates), and crs = [present, name] where name
\* is crs.properties.name ("" when absent).
WhiteSpace == {" ", "\t", "\n", "\r"}

\* s.includes(sub)
Includes(s, sub) ==
    \E i \in 1..(Len(s) - Len(sub) + 1) : SubSeq(s, i, i + Len(sub) - 1) = sub

RECURSIVE SkipChars(_, _)
\* s without its longest prefix made of the given characters
SkipChars(s, chars) ==
    IF Len(s) > 0 /\ Head(s) \in chars THEN SkipChars(Tail(s), chars) ELSE s

\* what follows `word` (any letter case) and a run of `chars` at the start of
\* s; no match is reported as the text "<none>"
AfterWord(s, word, chars) ==
    IF Len(s) >= Len(word) /\ ToUpperCase(SubSeq(s, 1, Len(word))) = ToUpperCase(word)
    THEN SkipChars(SubSeq(s, Len(word) + 1, Len(s)), chars)
    ELSE "<none>"

RECURSIVE DigitsAfter(_, _, _)
\* the group captured by the leftmost match of /word[chars]*(\d+)/i in s,
\* "" when there is no match
DigitsAfter(s, word, chars) ==
    IF Len(s) < Len(word) THEN ""
    ELSE LET rest == AfterWord(s, word, chars)
         IN  IF rest # "<none>" /\ DigitPrefixLen(rest) > 0
             THEN SubSeq(rest, 1, DigitPrefixLen(rest))
             ELSE DigitsAfter(Tail(s), word, chars)

\* crsName.match(/EPSG[:\s]*(\d+)/i): `EPSG:${match[1]}` of the leftmost
\* match, "" (null) when there is none
EpsgMatch(s) ==
    IF DigitsAfter(s, "EPSG", WhiteSpace \cup {":"}) = "" THEN ""
    ELSE "EPSG:" \o DigitsAfter(s, "EPSG", WhiteSpace \cup {":"})

\* sourceCRS of a normalized collection ("" is null)
SourceCRS(crs) == IF crs.present /\ crs.name # "" THEN EpsgMatch(crs.name) ELSE ""

\* one entry of geojson.features, kept whatever its type says
NormalizeEntryAnyType(entry) ==
    IF ~entry.hasGeometry \/ ~entry.geometry.hasCoords
    THEN [null |-> TRUE, why |-> "missing geometry", feature |-> entry]
    ELSE [null |-> FALSE, why |-> "",
          feature |-> Feature(entry.geometry,
                              IF entry.hasProperties THEN entry.properties ELSE <<>>)]

\* one entry of geojson.features, or null when it is skipped
NormalizeEntry(entry) ==
    IF entry.type # "Feature" THEN [null |-> TRUE, why |-> "invalid", feature |-> entry]
    ELSE IF ~entry.hasGeometry \/ ~entry.geometry.hasCoords
         THEN [null |-> TRUE, why |-> "missing geometry", feature |-> entry]
    ELSE [null |-> FALSE, why |-> "",
          feature |-> Feature(entry.geometry,
                              IF entry.hasProperties THEN entry.properties ELSE <<>>)]

RECURSIVE KeepFeatures(_)
\* geojson.features.map(...).filter(f => f !== null)
KeepFeatures(entries) ==
    IF Len(entries) = 0 THEN <<>>
    ELSE IF NormalizeEntry(Head(entries)).null THEN KeepFeatures(Tail(entries))
    ELSE <<NormalizeEntry(Head(entries)).feature>> \o KeepFeatures(Tail(entries))

RECURSIVE WrapGeometries(_)
\* geojson.geometries.filter(geom => geom && geom.coordinates).map(...)
WrapGeometries(geoms) ==
    IF Len(geoms) = 0 THEN <<>>
    ELSE IF Head(geoms).hasCoords
         THEN <<Feature(Head(geoms), <<>>)>> \o WrapGeometries(Tail(geoms))
    ELSE WrapGeometries(Tail(geoms))

GeometryTypes == {"Point", "LineString", "Polygon", "MultiPoint", "MultiLineString", "MultiPolygon"}

Collection(features, crs) == [type |-> "FeatureCollection", features |-> features, crs |-> crs]
\* an error thrown with a fixed message
FailureUnnamed(msg) ==
    [ok |-> FALSE, msg |-> "Invalid GeoJSON", data |-> Collection(<<>>, NoCrs)]
Failure(msg) == [ok |-> FALSE, msg |-> msg, data |-> Collection(<<>>, NoCrs)]
Normalized(data) == [ok |-> TRUE, msg |-> "", data |-> data]

\* the bare geometry document handed on as it is
WrapGeometryBare(geojson) ==
    [type |-> geojson.type, features |-> <<>>, crs |-> geojson.crs]

\* the bare geometry document, as handed on to the layer store
WrapGeometry(geojson) ==
    Collection(<<Feature([type |-> geojson.type, hasCoords |-> geojson.hasCoords,
                          coordinates |-> geojson.coordinates], <<>>)>>, geojson.crs)

\* lines 60-147: the collection built from the document's type, or the error thrown
NormalizeShape(geojson) ==
    IF ~geojson.isObject THEN Failure("Invalid GeoJSON: must be an object")
    ELSE IF geojson.type = "FeatureCollection"
    THEN IF ~geojson.featuresIsArray
         THEN Failure("Invalid FeatureCollection: features must be an array")
         ELSE IF Len(KeepFeatures(geojson.features)) = 0
         THEN Failure("FeatureCollection contains no valid features")
         ELSE Normalized(Collection(KeepFeatures(geojson.features), geojson.crs))
    ELSE IF geojson.type = "Feature"
    THEN IF ~geojson.hasGeometry \/ ~geojson.geometry.hasCoords
         THEN Failure("Invalid Feature: missing geometry")
         ELSE Normalized(Collection(
                 <<Feature(geojson.geometry,
                           IF geojson.hasProperties THEN geojson.properties ELSE <<>>)>>,
                 geojson.crs))
    ELSE IF geojson.type \in GeometryTypes
    THEN Normalized(WrapGeometry(geojson))
    ELSE IF geojson.type = "GeometryCollection"
    THEN IF ~geojson.geometriesIsArray
         THEN Failure("Invalid GeometryCollection: geometries must be an array")
         ELSE IF Len(WrapGeometries(geojson.geometries)) = 0
         THEN Failure("GeometryCollection contains no valid geometries")
         ELSE Normalized(Collection(WrapGeometries(geojson.geometries), geojson.crs))
    ELSE Failure("Unsupported GeoJSON type: " \o
                 (IF geojson.type = "" THEN "unknown" ELSE geojson.type))

\* transformCoordinates applied to one position [x, y, ...rest]
TransformPosition(source, pos) ==
    IF Len(pos) >= 2 /\ IsNumberType(pos[1]) /\ IsNumberType(pos[2])
    THEN LET p == Proj4ToWGS84(source, pos[1], pos[2])
         IN  IF p.threw THEN pos ELSE <<p.lon, p.lat>> \o SubSeq(pos, 3, Len(pos))
    ELSE pos

\* transformCoordinates: every position of the nested array, the nesting kept
TransformCoordinates(source, coords) ==
    [coords EXCEPT !.parts =
        [i \in 1..Len(coords.parts) |->
            [k \in 1..Len(coords.parts[i]) |-> TransformPosition(source, coords.parts[i][k])]]]

\* the feature has lon and lat properties (!== undefined)
HasLonLat(feature) ==
    /\ feature.hasProperties
    /\ Get(feature.properties, "lon") # JsUndefined
    /\ Get(feature.properties, "lat") # JsUndefined

\* feature.geometry.coordinates = [parseFloat(lon), parseFloat(lat)]
UseLonLat(feature) ==
    [feature EXCEPT !.geometry.coordinates =
        PointCoords(<<ParseFloat(Get(feature.properties, "lon")),
                      ParseFloat(Get(feature.properties, "lat"))>>)]

\* lines 183-196: the features that take their coordinates from lon / lat
TakesLonLat(feature) ==
    feature.hasGeometry /\ feature.geometry.type = "Point" /\ HasLonLat(feature)

\* lines 198-229: usedProperties decides for the whole collection
TransformFeatures(source, features) ==
    IF \E i \in 1..Len(features) : TakesLonLat(features[i])
    THEN [i \in 1..Len(features) |->
            IF TakesLonLat(features[i]) THEN UseLonLat(features[i]) ELSE features[i]]
    ELSE [i \in 1..Len(features) |->
            IF features[i].hasGeometry /\ features[i].geometry.hasCoords
            THEN [features[i] EXCEPT !.geometry.coordinates =
                     TransformCoordinates(source, features[i].geometry.coordinates)]
            ELSE features[i]]

\* Array.isArray(coords[0]) ? coords[0][0] : coords[0]
FirstCoord(geometry) ==
    LET c == geometry.coordinates
    IN  IF ~geometry.hasCoords \/ Len(c.parts) = 0 \/ Len(c.parts[1]) = 0 THEN JsUndefined
        ELSE IF c.depth <= 1
             THEN (IF Len(c.parts[1][1]) = 0 THEN JsUndefined ELSE c.parts[1][1][1])
        ELSE JsUndefined

\* Math.abs(v) > bound for a value of type number
AbsGreater(v, bound) ==
    \/ v.t = "inf"
    \/ v.t = "number" /\ (v.n > bound \/ v.n < 0 - bound)

\* typeof firstCoord === 'number' && Math.abs(firstCoord) > 180, for the
\* first feature of the collection
LooksProjected(features) ==
    /\ Len(features) > 0
    /\ features[1].hasGeometry
    /\ AbsGreater(FirstCoord(features[1].geometry), 180)

\* a recovery that does not look at the first coordinate
RecoverFeaturesAlways(features) ==
    [i \in 1..Len(features) |->
        IF HasLonLat(features[i]) /\ features[i].geometry.type = "Point"
        THEN UseLonLat(features[i]) ELSE features[i]]

\* lines 234-259: no source CRS; a first coordinate beyond 180 makes Point
\* features take lon / lat from their properties
RecoverFeatures(features) ==
    IF LooksProjected(features)
    THEN [i \in 1..Len(features) |->
            IF HasLonLat(features[i]) /\ features[i].geometry.type = "Point"
            THEN UseLonLat(features[i]) ELSE features[i]]
    ELSE features

\* lines 149-259: CRS detection, transformation, clearing of the CRS block
Canonicalize(data) ==
    LET source == SourceCRS(data.crs)
    IN  IF source # "" /\ source # EPSG4326
        THEN [data EXCEPT !.features = TransformFeatures(source, data.features),
                          !.crs = NoCrs]
        ELSE IF source = "" THEN [data EXCEPT !.features = RecoverFeatures(data.features)]
        ELSE data

\* the console.warn records of lines 179 and 242
CrsWarnings(data) ==
    LET source == SourceCRS(data.crs)
    IN  IF source # "" /\ source # EPSG4326
        THEN (IF source \in ProjDefs THEN {}
              ELSE {[kind |-> "Unknown CRS " \o source, index |-> 0, pos |-> <<>>]})
        ELSE IF source = "" /\ LooksProjected(data.features)
        THEN {[kind |-> "projected coordinates but no CRS", index |-> 0, pos |-> <<>>]}
        ELSE {}

\* lon < -180 || lon > 180 || lat < -90 || lat > 90, for [lon, lat] = pos
OutsideWGS84(pos) ==
    LET lon == IF Len(pos) >= 1 THEN ToNumber(pos[1]) ELSE JsNaN
        lat == IF Len(pos) >= 2 THEN ToNumber(pos[2]) ELSE JsNaN
    IN  \/ lon.t = "inf"
        \/ lon.t = "number" /\ (lon.n < -180 \/ lon.n > 180)
        \/ lat.t = "inf"
        \/ lat.t = "number" /\ (lat.n < -90 \/ lat.n > 90)

\* nesting validateCoordinates walks for a geometry type (-1: not walked)
WalkDepth(type) ==
    CASE type = "Point" -> 0
      [] type \in {"LineString", "MultiPoint"} -> 1
      [] type \in {"Polygon", "MultiLineString"} -> 2
      [] type = "MultiPolygon" -> 3
      [] OTHER -> 0 - 1

\* validateCoordinates throws a TypeError: coordinates missing, or nested
\* less deeply than the geometry type is walked
ValidateThrows(geometry) ==
    /\ WalkDepth(geometry.type) >= 0
    /\ \/ ~geometry.hasCoords
       \/ /\ geometry.coordinates.depth < WalkDepth(geometry.type)
          /\ \E i \in 1..Len(geometry.coordinates.parts) :
                \E k \in 1..Len(geometry.coordinates.parts[i]) :
                    Len(geometry.coordinates.parts[i][k]) > 0

\* the console.warn records of validateCoordinates for feature `index`
ValidateWarnings(geometry, index) ==
    IF WalkDepth(geometry.type) < 0 \/ ~geometry.hasCoords
          \/ geometry.coordinates.depth # WalkDepth(geometry.type)
    THEN {}
    ELSE UNION {{[kind |-> "outside WGS84 bounds", index |-> index,
                  pos |-> geometry.coordinates.parts[i][k]] :
                    k \in {j \in 1..Len(geometry.coordinates.parts[i]) :
                              OutsideWGS84(geometry.coordinates.parts[i][j])}} :
                 i \in 1..Len(geometry.coordinates.parts)}

\* console.warn of the entries skipped while normalizing
SkipWarnings(geojson) ==
    IF geojson.isObject /\ geojson.type = "FeatureCollection" /\ geojson.featuresIsArray
    THEN {[kind |-> "Skipping " \o NormalizeEntry(geojson.features[i]).why,
           index |-> i - 1, pos |-> <<>>] :
             i \in {j \in 1..Len(geojson.features) : NormalizeEntry(geojson.features[j]).null}}
    ELSE {}

\* processGeoJSON: what it hands to addLayer, or the message of the error it
\* alerts, and the warnings it logs
ProcessGeoJSON(geojson) ==
    LET shape == NormalizeShape(geojson)
        data == Canonicalize(shape.data)
        logged == SkipWarnings(geojson) \cup
                  (IF shape.ok
                   THEN CrsWarnings(shape.data) \cup
                        UNION {ValidateWarnings(data.features[i].geometry, i - 1) :
                                  i \in 1..Len(data.features)}
                   ELSE {})
    IN  IF ~shape.ok THEN [ok |-> FALSE, msg |-> shape.msg, data |-> shape.data, warns |-> logged]
        ELSE IF \E i \in 1..Len(data.features) : ValidateThrows(data.features[i].geometry)
        THEN [ok |-> FALSE, msg |-> "TypeError", data |-> data, warns |-> logged]
        ELSE [ok |-> TRUE, msg |-> "", data |-> data, warns |-> logged]

----------------------------------------------------------------------------
(* CRS resolver and shapefile assembler: extractEPSGFromPRJ,               *)
(* transformGeoJSONCoordinates, processShapefile                           *)

\* prjText.match(/AUTHORITY\["EPSG","(\d+)"\]/i): the captured digits, ""
\* when there is no match
RECURSIVE AuthorityMatch(_)
AuthorityMatch(s) ==
    IF Len(s) < 18 THEN ""
    ELSE LET rest == AfterWord(s, "AUTHORITY[\"EPSG\",\"", {})
             k == IF rest = "<none>" THEN 0 ELSE DigitPrefixLen(rest)
         IN  IF k > 0 /\ IsPrefix("\"]", SubSeq(rest, k + 1, Len(rest)))
             THEN SubSeq(rest, 1, k)
             ELSE AuthorityMatch(Tail(s))

\* prjText.match(/Zone[_\s]*32/i), which covers the includes() tests before it
HasZone32(s) ==
    \E i \in 1..Len(s) :
        IsPrefix("32", AfterWord(SubSeq(s, i, Len(s)), "Zone", WhiteSpace \cup {"_"}))

CarthageNames ==
    {"Carthage", "CARTHAGE", "clrk80", "CLRK80", "Clarke_1880", "Clarke 1880", "CLARKE_1880"}

RECURSIVE UtmZoneDigits(_)
\* the group captured by /UTM[_\s]*Zone[_\s]*(\d+)/i, "" when there is no match
UtmZoneDigits(s) ==
    IF Len(s) < 3 THEN ""
    ELSE LET zone == AfterWord(s, "UTM", WhiteSpace \cup {"_"})
             rest == IF zone = "<none>" THEN zone
                     ELSE AfterWord(zone, "Zone", WhiteSpace \cup {"_"})
         IN  IF rest # "<none>" /\ DigitPrefixLen(rest) > 0
             THEN SubSeq(rest, 1, DigitPrefixLen(rest))
             ELSE UtmZoneDigits(Tail(s))

\* extractEPSGFromPRJ(prjText); "" is null
ExtractEPSGFromPRJ(prjText) ==
    LET hasUTM == Includes(prjText, "UTM") \/ Includes(prjText, "utm")
        hasWGS == Includes(ToUpperCase(prjText), "WGS")
        hasCarthage == \E n \in CarthageNames : Includes(prjText, n)
        zone == IF UtmZoneDigits(prjText) # "" THEN UtmZoneDigits(prjText)
                ELSE DigitsAfter(prjText, "zone", WhiteSpace \cup {"_"})
        isNorth == ~Includes(prjText, "S") /\ ~Includes(prjText, "s")
    IN  IF prjText = "" THEN ""
        ELSE IF EpsgMatch(prjText) # "" THEN EpsgMatch(prjText)
        ELSE IF AuthorityMatch(prjText) # "" THEN "EPSG:" \o AuthorityMatch(prjText)
        ELSE IF Includes(prjText, "WGS_1984_UTM_Zone_32N")
                  \/ Includes(prjText, "WGS 1984 UTM Zone 32N") THEN EPSG32632
        ELSE IF hasUTM /\ HasZone32(prjText) /\ hasWGS THEN EPSG32632
        ELSE IF hasUTM /\ HasZone32(prjText) /\ hasCarthage THEN EPSG22391
        ELSE IF zone # "" /\ (Includes(prjText, "WGS") \/ Includes(prjText, "GCS_WGS"))
        THEN "EPSG:" \o ToString((IF isNorth THEN 32600 ELSE 32700) + DigitsValue(zone, 10))
        ELSE ""

\* Array.isArray(coords[0]) ? coords[0][1] : coords[1]
SecondCoord(geometry) ==
    LET c == geometry.coordinates
    IN  IF ~geometry.hasCoords \/ c.depth > 1 \/ Len(c.parts) = 0 \/ Len(c.parts[1]) = 0
             \/ Len(c.parts[1][1]) < 2
        THEN JsUndefined
        ELSE c.parts[1][1][2]

\* lines 935-963: the CRS assumed from the first feature's first position
\* when the projection component gave none ("" when nothing is assumed)
DetectCRSFromCoordinates(features) ==
    LET first == FirstCoord(features[1].geometry)
        second == SecondCoord(features[1].geometry)
    IN  IF Len(features) > 0 /\ features[1].hasGeometry /\ features[1].geometry.hasCoords
              /\ AbsGreater(first, 100000)
              /\ second.t = "number" /\ second.n > 0 /\ second.n < 10000000
        THEN IF first.t = "number"
                  /\ (IF first.n < 0 THEN 0 - first.n ELSE first.n) >= 300000
                  /\ (IF first.n < 0 THEN 0 - first.n ELSE first.n) <= 900000
             THEN EPSG32632
             ELSE EPSG22391
        ELSE ""

\* transformGeoJSONCoordinates(geojson, sourceCRS).features
TransformGeoJSONCoordinates(features, sourceCRS) ==
    IF sourceCRS = "" \/ sourceCRS = EPSG4326 THEN features
    ELSE [i \in 1..Len(features) |->
            IF features[i].hasGeometry /\ features[i].geometry.hasCoords
            THEN [features[i] EXCEPT !.geometry.coordinates =
                     TransformCoordinates(sourceCRS, features[i].geometry.coordinates)]
            ELSE features[i]]

\* processShapefile(fileGroup.shp, fileGroup, baseName): what it hands to
\* addLayer, or the message it alerts, and the warnings it logs.  The .shp
\* component is given by what the shapefile parser makes of it: parsed is
\* "FeatureCollection" (getShapefile succeeded), "array" (the fallback parser
\* returned a bare array), "Feature" (a single feature, features[1]) or
\* "throws".  A single feature has a type, so lines 920-933 leave it as it
\* is: it has no features array, nothing is assumed from its coordinates,
\* and transformGeoJSONCoordinates throws on geojson.features.map.
ProcessShapefile(fileGroup) ==
    LET shp == fileGroup["shp"].body
        prjBuffer == IF fileGroup["prj"].present THEN fileGroup["prj"].body.text ELSE ""
        fromPrj == ExtractEPSGFromPRJ(prjBuffer)
        fromCoords == IF fromPrj = "" /\ shp.parsed # "Feature" /\ Len(shp.features) > 0
                      THEN DetectCRSFromCoordinates(shp.features) ELSE ""
        sourceCRS == IF fromPrj # "" THEN fromPrj ELSE fromCoords
        mapThrows == shp.parsed = "Feature" /\ sourceCRS \notin {"", EPSG4326}
        logged == (IF ~fileGroup["prj"].present THEN {"No .prj file found"} ELSE {})
                  \cup (IF prjBuffer = "" THEN {"No PRJ file found"}
                        ELSE IF fromPrj = "" THEN {"Could not extract EPSG code from PRJ file"}
                        ELSE {})
                  \cup (IF shp.parsed # "throws" /\ fromCoords # ""
                        THEN {"Detected UTM coordinates but no PRJ file. Assuming " \o fromCoords}
                        ELSE {})
                  \cup (IF shp.parsed # "throws" /\ sourceCRS \notin ProjDefs \cup {""}
                        THEN {"Unknown CRS " \o sourceCRS} ELSE {})
    IN  [ok |-> shp.parsed # "throws" /\ ~mapThrows,
         msg |-> IF shp.parsed = "throws" THEN "Failed to parse shapefile"
                 ELSE IF mapThrows THEN "TypeError" ELSE "",
         data |-> IF shp.parsed = "Feature"
                  THEN [type |-> "Feature", features |-> <<>>, crs |-> NoCrs]
                  ELSE Collection(TransformGeoJSONCoordinates(shp.features, sourceCRS),
                                  NoCrs),
         warns |-> {[kind |-> k, index |-> 0, pos |-> <<>>] : k \in logged}]

----------------------------------------------------------------------------
(* Markup extractor: the properties taken from a Placemark                 *)

RECURSIVE ExtendedData(_, _)
\* feature.properties[name] = value.trim() for every Data element with a
\* name and a value
ExtendedData(properties, data) ==
    IF Len(data) = 0 THEN properties
    ELSE ExtendedData(IF Head(data).key # ""
                      THEN Put(properties, Head(data).key, JsStr(Trim(Head(data).val)))
                      ELSE properties,
                      Tail(data))

\* /^[0-9a-fA-F]{n}$/.test(s)
IsHexText(s, n) == Len(s) = n /\ AllIn(s, HexChars \cup {"A", "B", "C", "D", "E", "F"})

RECURSIVE ToHex(_)
\* n.toString(16)
ToHex(n) ==
    LET digit == CHOOSE c \in HexChars : DigitVal(c) = n % 16
    IN  IF n < 16 THEN digit ELSE ToHex(n \div 16) \o digit

\* s.padStart(2, '0')
PadStart2(s) == IF Len(s) < 2 THEN "0" \o s ELSE s

\* the text after a run of digits at the start of s followed by `sep` and
\* blanks, "<none>" when s does not start that way
AfterDigits(s, sep) ==
    LET k == DigitPrefixLen(s)
    IN  IF k > 0 /\ Len(s) > k /\ SubSeq(s, k + 1, k + 1) = sep
        THEN SkipChars(SubSeq(s, k + 2, Len(s)), WhiteSpace)
        ELSE "<none>"

\* ([\d.]+)\) at the start of the text
AlphaCloses(alpha) ==
    LET after == SkipChars(alpha, DigitChars \cup {"."})
    IN  after # alpha /\ IsPrefix(")", after)

\* (\d+)(?:,\s*([\d.]+))?\) at the start of the text
RgbCloses(third) ==
    LET rest == SkipChars(third, DigitChars)
    IN  /\ rest # third
        /\ \/ IsPrefix(")", rest)
           \/ IsPrefix(",", rest) /\ AlphaCloses(SkipChars(Tail(rest), WhiteSpace))

\* the number a text starts with
LeadingNumber(s) == DigitsValue(SubSeq(s, 1, DigitPrefixLen(s)), 10)

\* the three numbers of (\d+),\s*(\d+),\s*(\d+)(?:,\s*([\d.]+))?\) at the
\* start of the text, <<>> when it does not start that way
RgbNumbers(first) ==
    LET second == AfterDigits(first, ",")
        third == AfterDigits(second, ",")
    IN  IF RgbCloses(third)
        THEN <<LeadingNumber(first), LeadingNumber(second), LeadingNumber(third)>>
        ELSE <<>>

\* the three numbers of a match that starts at the start of the text
RgbAt(s) ==
    IF IsPrefix("rgb(", s) THEN RgbNumbers(SubSeq(s, 5, Len(s)))
    ELSE IF IsPrefix("rgba(", s) THEN RgbNumbers(SubSeq(s, 6, Len(s)))
    ELSE <<>>

RECURSIVE RgbMatch(_)
\* color.match(/rgba?\((\d+),\s*(\d+),\s*(\d+)(?:,\s*([\d.]+))?\)/): the
\* three captured numbers of the leftmost match, <<>> when there is none
RgbMatch(s) ==
    IF Len(s) < 4 THEN <<>>
    ELSE IF RgbAt(s) # <<>> THEN RgbAt(s)
    ELSE RgbMatch(Tail(s))

\* `#${r}${g}${b}` of the captured numbers, each in two hexadecimal digits;
\* "" when there was no match
RgbHex(rgb) ==
    IF rgb = <<>> THEN ""
    ELSE "#" \o PadStart2(ToHex(rgb[1])) \o PadStart2(ToHex(rgb[2])) \o PadStart2(ToHex(rgb[3]))

\* convertKMLColorToHex(color) for a trimmed, non-empty text
ConvertColor(color) ==
    IF Head(color) = "#" THEN SubSeq(color, 1, IF Len(color) < 7 THEN Len(color) ELSE 7)
    ELSE IF IsHexText(color, 8)
         THEN "#" \o SubSeq(color, 7, 8) \o SubSeq(color, 5, 6) \o SubSeq(color, 3, 4)
    ELSE IF IsHexText(color, 6) THEN "#" \o color
    ELSE RgbHex(RgbMatch(color))

\* convertKMLColorToHex(kmlColor); "" is null
ConvertKMLColorToHex(kmlColor) ==
    IF Trim(kmlColor) = "" THEN "" ELSE ConvertColor(Trim(kmlColor))

\* a Style element: its id ("" when it has none), its PolyStyle
\* [present, color, fill, hasFillOpacity, fillOpacity] and its IconStyle
\* [present, color]; "" stands for a child that is absent or empty
NoStyle ==
    [present |-> FALSE, id |-> "",
     poly |-> [present |-> FALSE, color |-> "", fill |-> "",
               hasFillOpacity |-> FALSE, fillOpacity |-> ""],
     icon |-> [present |-> FALSE, color |-> ""]]

\* kml.getElementsByTagName('Style'): the shared styles of the document,
\* then the styles written inside its Placemarks
AllStyles(kml) ==
    kml.styles \o SelectSeq([i \in 1..Len(kml.placemarks) |-> kml.placemarks[i].style],
                            LAMBDA st : st.present)

\* lines 555-576: the Style of the Placemark, or the first Style of the
\* document whose id its styleUrl names
StyleElement(kml, placemark) ==
    LET styleId == IF Len(placemark.styleUrl) > 0 THEN Tail(placemark.styleUrl) ELSE ""
        allStyles == AllStyles(kml)
        found == {i \in 1..Len(allStyles) :
                     allStyles[i].id # "" /\ allStyles[i].id = styleId}
    IN  IF placemark.style.present THEN placemark.style
        ELSE IF IsPrefix("#", placemark.styleUrl) /\ found # {}
        THEN allStyles[CHOOSE i \in found : \A j \in found : i <= j]
        ELSE NoStyle

\* (parseInt(alphaHex, 16) / 255).toString(), the quotient written as a
\* fraction when it is not a whole number
AlphaText(alphaHex) ==
    LET lower == [i \in 1..2 |->
                     IF SubSeq(alphaHex, i, i) \in HexChars THEN SubSeq(alphaHex, i, i)
                     ELSE CHOOSE h \in HexChars : UpperChar(h) = SubSeq(alphaHex, i, i)]
        alpha == DigitVal(lower[1]) * 16 + DigitVal(lower[2])
    IN  IF alpha = 0 THEN "0" ELSE IF alpha = 255 THEN "1" ELSE ToString(alpha) \o "/255"

\* lines 586-594: fill from the colour of the PolyStyle
WithColor(properties, hexColor) ==
    IF hexColor # "" THEN Put(properties, "fill", JsStr(hexColor)) ELSE properties

\* lines 596-602: fill from the fill child of the PolyStyle
WithFill(properties, fillValue) ==
    IF fillValue # "" THEN Put(properties, "fill", JsStr(fillValue)) ELSE properties

\* lines 604-618: fill-opacity from the fillOpacity child, else from the
\* first byte pair of the colour
WithOpacity(properties, poly, kmlColor) ==
    IF poly.hasFillOpacity
    THEN (IF Trim(poly.fillOpacity) # ""
          THEN Put(properties, "fill-opacity", JsStr(Trim(poly.fillOpacity)))
          ELSE properties)
    ELSE IF IsHexText(kmlColor, 8)
    THEN Put(properties, "fill-opacity", JsStr(AlphaText(SubSeq(kmlColor, 1, 2))))
    ELSE properties

\* lines 622-635: fill from the colour of the IconStyle when none is set
WithIconColor(properties, icon, hexColor) ==
    IF icon.present /\ ~Truthy(Get(properties, "fill")) /\ hexColor # ""
    THEN Put(properties, "fill", JsStr(hexColor))
    ELSE properties

\* lines 578-619: fill and fill-opacity taken from the PolyStyle
PolyStyleProperties(properties, poly) ==
    IF poly.present
    THEN WithOpacity(WithFill(WithColor(properties, ConvertKMLColorToHex(poly.color)),
                              Trim(poly.fill)),
                     poly, Trim(poly.color))
    ELSE properties

\* lines 578-636: fill and fill-opacity taken from the PolyStyle, then fill
\* from the IconStyle
StyleProperties(properties, style) ==
    IF style.present
    THEN WithIconColor(PolyStyleProperties(properties, style.poly), style.icon,
                       ConvertKMLColorToHex(style.icon.color))
    ELSE properties

\* lines 639-651: name and description, where the feature has none
WithText(properties, key, text) ==
    IF Trim(text) # "" /\ ~Truthy(Get(properties, key))
    THEN Put(properties, key, JsStr(Trim(text)))
    ELSE properties

\* lines 530-655: the properties of a converted feature after the Placemark
\* of the same index has been read; a Placemark is [name, description, data,
\* style, styleUrl] and what the converter made of it, "" standing for an
\* element that is absent or empty
PlacemarkProperties(kml, properties, placemark) ==
    WithText(WithText(StyleProperties(ExtendedData(properties, placemark.data),
                                      StyleElement(kml, placemark)),
                      "name", placemark.name),
             "description", placemark.description)

EmptyDoc ==
    [isObject |-> TRUE, type |-> "", featuresIsArray |-> FALSE, features |-> <<>>,
     hasGeometry |-> FALSE, geometry |-> NoGeometry, hasProperties |-> FALSE,
     properties |-> <<>>, geometriesIsArray |-> FALSE, geometries |-> <<>>,
     hasCoords |-> FALSE, coordinates |-> NoCoords, crs |-> NoCrs]

\* number of places where sub occurs in s
CountOf(s, sub) ==
    Cardinality({i \in 1..(Len(s) - Len(sub) + 1) : SubSeq(s, i, i + Len(sub) - 1) = sub})

\* kmlText.replace(/<kml([^>]*)>/i, '<kml$1 ' + declaration + '>'): the
\* declaration is written at the end of the first <kml ...> tag
AddToRoot(kmlText, declaration) ==
    LET starts == {i \in 1..(Len(kmlText) - 3) :
                      /\ ToUpperCase(SubSeq(kmlText, i, i + 3)) = "<KML"
                      /\ \E j \in (i + 4)..Len(kmlText) : SubSeq(kmlText, j, j) = ">"}
        i == CHOOSE a \in starts : \A b \in starts : a <= b
        j == CHOOSE a \in (i + 4)..Len(kmlText) :
                 /\ SubSeq(kmlText, a, a) = ">"
                 /\ \A b \in (i + 4)..(a - 1) : SubSeq(kmlText, b, b) # ">"
    IN  IF starts = {} THEN kmlText
        ELSE SubSeq(kmlText, 1, i - 1) \o "<kml" \o SubSeq(kmlText, i + 4, j - 1)
                 \o " " \o declaration \o SubSeq(kmlText, j, Len(kmlText))

XsiDeclaration == "xmlns:xsi=\"http://www.w3.org/2001/XMLSchema-instance\""
KmlDeclaration == "xmlns=\"http://www.opengis.net/kml/2.2\""

\* lines 472-496: the text handed to the DOM parser
FixNamespaces(kmlText) ==
    LET withXsi == IF Includes(kmlText, "schemaLocation") /\ ~Includes(kmlText, "xmlns:xsi")
                   THEN AddToRoot(kmlText, XsiDeclaration) ELSE kmlText
    IN  IF ~Includes(withXsi, "xmlns=") /\ ~Includes(withXsi, "xmlns:")
        THEN AddToRoot(withXsi, KmlDeclaration)
        ELSE IF /\ Includes(withXsi, "<kml")
                /\ ~Includes(withXsi, KmlDeclaration)
                /\ ~Includes(withXsi, "xmlns='http://www.opengis.net/kml/2.2'")
        THEN AddToRoot(withXsi, KmlDeclaration)
        ELSE withXsi

\* parser.parseFromString(kmlText, 'text/xml') returns no parsererror: the
\* document is well formed apart from its namespaces, no element declares a
\* namespace twice and the xsi prefix is declared where it is used
ParseFromString(kml, kmlText) ==
    /\ kml.wellFormed
    /\ CountOf(kmlText, " xmlns=") <= 1
    /\ CountOf(kmlText, " xmlns:xsi=") <= 1
    /\ Includes(kmlText, " xsi:") => Includes(kmlText, " xmlns:xsi=")

\* toGeoJSON.kml(kml): one feature for every Placemark that has a geometry,
\* in document order
ToGeoJSON(kml) ==
    LET converted == SelectSeq(kml.placemarks, LAMBDA pm : pm.hasGeometry)
    IN  [i \in 1..Len(converted) |->
            [type |-> "Feature", hasGeometry |-> TRUE, geometry |-> converted[i].geometry,
             hasProperties |-> converted[i].hasProperties,
             properties |-> converted[i].properties]]

\* the collection toGeoJSON.kml returned, with the Placemark properties added
KmlGeoJSON(kml) ==
    [EmptyDoc EXCEPT
        !.type = "FeatureCollection",
        !.featuresIsArray = TRUE,
        !.features =
            [i \in 1..Len(ToGeoJSON(kml)) |->
                LET f == ToGeoJSON(kml)[i]
                    properties == IF f.hasProperties THEN f.properties ELSE <<>>
                IN  [f EXCEPT !.hasProperties = TRUE,
                              !.properties =
                                  IF i <= Len(kml.placemarks)
                                  THEN PlacemarkProperties(kml, properties, kml.placemarks[i])
                                  ELSE properties]]]

----------------------------------------------------------------------------
(* Layer store: addLayer and the layer list actions                        *)

\* a subset of predefinedColors, enough for the layers the model creates
PredefinedColors == {"#3b82f6", "#10b981", "#f59e0b"}

\* getRandomUniqueColor(existingColors): the colours it can return; beyond
\* the palette, a random hsl() colour
RandomUniqueColors(existingColors) ==
    IF PredefinedColors \ existingColors # {}
    THEN PredefinedColors \ existingColors
    ELSE {"hsl"}

LayerColors(ls) == {ls[i].color : i \in 1..Len(ls)}
CategoryNames(cats) == {cats[i].name : i \in 1..Len(cats)}

NewLayer(id, name, data, color, category) ==
    [id |-> id, name |-> name, type |-> "geojson", data |-> data,
     visible |-> TRUE, color |-> color, category |-> category]

\* setLayers([...layers, newLayer]) with the `layers` of the handler's render
AppendLayerToSnapshot(prevLayers, snapLayers, newLayer) == Append(snapLayers, newLayer)

\* setLayers(prevLayers => [...prevLayers, newLayer]); snapLayers is the
\* `layers` value of the render the handler was created in
AppendLayer(prevLayers, snapLayers, newLayer) == Append(prevLayers, newLayer)

\* setCategories(prev => ({...prev, [category]: {expanded: true}}))
PutCategory(prev, category) ==
    IF category \in CategoryNames(prev)
    THEN [i \in 1..Len(prev) |->
            IF prev[i].name = category THEN [name |-> category, expanded |-> TRUE]
            ELSE prev[i]]
    ELSE Append(prev, [name |-> category, expanded |-> TRUE])

\* who a diagnostic or a hand-off is about: the file (or shapefile group) of a batch
Source(task) == [batch |-> task.batch, base |-> task.base, ext |-> task.ext]

\* addLayer(name, 'geojson', data, category), called by the completion `task`
AddLayer(task, name, data, category) ==
    \E color \in RandomUniqueColors(LayerColors(task.snap.layers)) :
        /\ layers' = AppendLayer(layers, task.snap.layers,
                                 NewLayer(nextId, name, data, color, category))
        /\ categories' = IF category \notin CategoryNames(task.snap.categories)
                         THEN PutCategory(categories, category)
                         ELSE categories
        /\ selectedColor' = color
        /\ handed' = Append(handed, [task |-> task, id |-> nextId, name |-> name,
                                     data |-> data])
        /\ nextId' = nextId + 1

Alert(task, msg) == Append(alerts, [src |-> Source(task), msg |-> msg])

\* console.warn records of one completion, tagged with its file
Logged(task, records) == warns \cup {[src |-> Source(task), rec |-> r] : r \in records}

\* the end of a normalization: the hand-off to addLayer, or the alert
Finish(task, result, failure) ==
    /\ pending' = pending \ {task}
    /\ warns' = Logged(task, result.warns)
    /\ IF result.ok
       THEN /\ AddLayer(task, task.base, result.data, task.base)
            /\ UNCHANGED alerts
       ELSE /\ alerts' = Alert(task, failure \o result.msg)
            /\ UNCHANGED <<layers, categories, handed, nextId, selectedColor>>
    /\ UNCHANGED drawVars
    /\ UNCHANGED <<inbox, passes, selected, deleted, selectedLayer>>

\* the layer is shown in the layer list (LayersList lists the layers of the
\* categories of the category map)
Listed(layer) == layer.category \in CategoryNames(categories)

NoLayer == [null |-> TRUE, layer |-> NewLayer(0, "", Collection(<<>>, NoCrs), "", "")]

\* selectLayer(layer), from a click on the layer's row
SelectLayer(i) ==
    /\ i \in 1..Len(layers)
    /\ Listed(layers[i])
    /\ selectedLayer' = [null |-> FALSE, layer |-> layers[i]]
    /\ UNCHANGED drawVars
    /\ UNCHANGED <<inbox, pending, layers, categories, alerts, warns, handed, nextId,
                   passes, selected, deleted, selectedColor>>

\* toggleLayerVisibility(layer.id), from the eye button of the layer's row
ToggleLayerVisibility(i) ==
    /\ i \in 1..Len(layers)
    /\ Listed(layers[i])
    /\ layers' = [k \in 1..Len(layers) |->
                    IF layers[k].id = layers[i].id
                    THEN [layers[k] EXCEPT !.visible = ~layers[k].visible]
                    ELSE layers[k]]
    /\ UNCHANGED drawVars
    /\ UNCHANGED <<inbox, pending, categories, alerts, warns, handed, nextId, passes,
                   selected, deleted, selectedLayer, selectedColor>>

\* changeLayerColor(layerId, newColor)
ChangeLayerColor(prevLayers, layerId, newColor) ==
    [k \in 1..Len(prevLayers) |->
        IF prevLayers[k].id = layerId
        THEN [prevLayers[k] EXCEPT !.color = newColor]
        ELSE prevLayers[k]]

\* a colour of the palette of the right sidebar
SidebarColors == {"#dc2626"}

\* handleColorSelection(color), from a click on a palette colour
HandleColorSelection(color) ==
    /\ color \in SidebarColors
    /\ selectedColor' = color
    /\ layers' = IF selectedLayer.null THEN layers
                 ELSE ChangeLayerColor(layers, selectedLayer.layer.id, color)
    /\ UNCHANGED drawVars
    /\ UNCHANGED <<inbox, pending, categories, alerts, warns, handed, nextId, passes,
                   selected, deleted, selectedLayer>>

\* deleteLayer(layer.id), from the delete button of the layer's row
DeleteLayer(i) ==
    /\ i \in 1..Len(layers)
    /\ Listed(layers[i])
    /\ LET updatedLayers == SelectSeq(layers, LAMBDA l : l.id # layers[i].id)
           categoryHasOtherLayers ==
               \E k \in 1..Len(updatedLayers) : updatedLayers[k].category = layers[i].category
       IN  /\ layers' = updatedLayers
           /\ categories' = IF categoryHasOtherLayers THEN categories
                            ELSE SelectSeq(categories, LAMBDA c : c.name # layers[i].category)
    /\ deleted' = deleted \cup {layers[i].id}
    /\ UNCHANGED drawVars
    /\ UNCHANGED <<inbox, pending, alerts, warns, handed, nextId, passes, selected,
                   selectedLayer, selectedColor>>

\* moveCategory(categoryName, direction), from the arrows of a category of
\* the layer list: the category changes places with its neighbour
MoveCategory(categoryName, direction) ==
    /\ categoryName \in CategoryNames(categories)
    /\ LET index == CHOOSE i \in 1..Len(categories) : categories[i].name = categoryName
           targetIndex == IF direction = "up" THEN index - 1 ELSE index + 1
       IN  categories' = IF targetIndex < 1 \/ targetIndex > Len(categories) THEN categories
                         ELSE [categories EXCEPT ![index] = categories[targetIndex],
                                                 ![targetIndex] = categories[index]]
    /\ UNCHANGED drawVars
    /\ UNCHANGED <<inbox, pending, layers, alerts, warns, handed, nextId, passes, selected,
                   deleted, selectedLayer, selectedColor>>

----------------------------------------------------------------------------
(* Draw tool: the map listeners of DrawTools and the tool buttons          *)

MaxStrokes == 2
MaxPoints == 2

\* the cleanup of the effect, then the effect, after a render with the
\* given activeTool and isDrawing: the listeners are taken off, dragging is
\* enabled, and for the draw tool listeners closing over the two values are
\* put on
Effect(tool, drawing) == [on |-> tool = "draw", activeTool |-> tool, isDrawing |-> drawing]

\* App.jsx line 28 and lines 39-45, DrawTools.jsx lines 6-8: the select tool,
\* no stroke, dragging enabled
InitDrawTool ==
    /\ activeTool = "select"
    /\ isDrawing = FALSE
    /\ currentPolyline = 0
    /\ drawnItems = <<>>
    /\ dragging = TRUE
    /\ listeners = Effect("select", FALSE)
    /\ pointer = [button |-> "released", onMap |-> FALSE]
    /\ strokes = 0

\* handleMouseDown, on the map's mousedown; when isDrawing changes the
\* component renders again and its effect runs, before the rest of the
\* listener unless the build batches the update
MouseDown ==
    /\ pointer = [button |-> "released", onMap |-> TRUE]
    /\ pointer' = [pointer EXCEPT !.button = "pressed"]
    /\ IF listeners.on /\ listeners.activeTool = "draw"
       THEN /\ strokes < MaxStrokes
            /\ isDrawing' = TRUE
            /\ listeners' = Effect(activeTool, TRUE)
            /\ dragging' = (batched /\ ~isDrawing)
            /\ strokes' = strokes + 1
            /\ currentPolyline' = strokes + 1
            /\ drawnItems' = Append(drawnItems, [id |-> strokes + 1, points |-> 1])
       ELSE UNCHANGED <<isDrawing, listeners, dragging, strokes, currentPolyline, drawnItems>>
    /\ UNCHANGED <<activeTool, batched, storeVars>>

\* handleMouseMove, on the map's mousemove: currentPolyline.current.addLatLng;
\* with no current polyline the call throws and nothing changes
MouseMove ==
    /\ pointer.onMap
    /\ listeners.on /\ listeners.isDrawing /\ listeners.activeTool = "draw"
    /\ currentPolyline # 0
    /\ drawnItems' = [i \in 1..Len(drawnItems) |->
                         IF drawnItems[i].id = currentPolyline /\ drawnItems[i].points < MaxPoints
                         THEN [drawnItems[i] EXCEPT !.points = @ + 1]
                         ELSE drawnItems[i]]
    /\ UNCHANGED <<activeTool, isDrawing, currentPolyline, dragging, listeners, batched,
                   pointer, strokes, storeVars>>

\* handleMouseUp, on the map's mouseup
MouseUp ==
    /\ pointer = [button |-> "pressed", onMap |-> TRUE]
    /\ pointer' = [pointer EXCEPT !.button = "released"]
    /\ IF listeners.on /\ listeners.isDrawing
       THEN /\ isDrawing' = FALSE
            /\ listeners' = Effect(activeTool, FALSE)
            /\ dragging' = TRUE
            /\ currentPolyline' = 0
       ELSE UNCHANGED <<isDrawing, listeners, dragging, currentPolyline>>
    /\ UNCHANGED <<activeTool, drawnItems, batched, strokes, storeVars>>

\* the mouse crosses the border of the map; the map fires mouseout and
\* mouseover, for which DrawTools has no listener
PointerCrosses ==
    /\ pointer' = [pointer EXCEPT !.onMap = ~pointer.onMap]
    /\ UNCHANGED <<activeTool, isDrawing, currentPolyline, drawnItems, dragging, listeners,
                   batched, strokes, storeVars>>

\* the button is pressed or released beside the map
ButtonBesideMap ==
    /\ ~pointer.onMap
    /\ pointer' = [pointer EXCEPT
                      !.button = IF pointer.button = "pressed" THEN "released" ELSE "pressed"]
    /\ UNCHANGED <<activeTool, isDrawing, currentPolyline, drawnItems, dragging, listeners,
                   batched, strokes, storeVars>>

\* setTool(tool), from a click on a tool button of the right sidebar, with
\* the effect of DrawTools run for the new tool; the click on the erase
\* button also runs handleEraseClick
SetTool(tool) ==
    /\ pointer = [button |-> "released", onMap |-> FALSE]
    /\ activeTool' = tool
    /\ listeners' = Effect(tool, isDrawing)
    /\ dragging' = IF tool # activeTool THEN TRUE ELSE dragging
    /\ drawnItems' = IF tool = "erase" /\ Len(drawnItems) > 0
                     THEN SubSeq(drawnItems, 1, Len(drawnItems) - 1)
                     ELSE drawnItems
    /\ UNCHANGED <<isDrawing, currentPolyline, batched, pointer, strokes, storeVars>>

----------------------------------------------------------------------------
(* handleFileUpload and the completions of the reads it starts             *)

LowerExt(ext) ==
    CASE ToUpperCase(ext) = "CSV" -> "csv"
      [] ToUpperCase(ext) = "XLSX" -> "xlsx"
      [] ToUpperCase(ext) = "XLS" -> "xls"
      [] ToUpperCase(ext) = "GEOJSON" -> "geojson"
      [] ToUpperCase(ext) = "JSON" -> "json"
      [] ToUpperCase(ext) = "KML" -> "kml"
      [] ToUpperCase(ext) = "SHP" -> "shp"
      [] ToUpperCase(ext) = "SHX" -> "shx"
      [] ToUpperCase(ext) = "DBF" -> "dbf"
      [] ToUpperCase(ext) = "PRJ" -> "prj"
      [] ToUpperCase(ext) = "CPG" -> "cpg"
      [] OTHER -> ext

ShapefileExts == {"shp", "shx", "dbf", "prj", "cpg"}

\* a file is [base, ext, body]: its name is base.ext, body what its reader
\* or parser makes of its content
IsComponent(file) == LowerExt(file.ext) \in ShapefileExts

\* Object.keys(shapefileGroups)
GroupNames(files) == {files[i].base : i \in {j \in 1..Len(files) : IsComponent(files[j])}}

\* shapefileGroups[baseName][ext]: the last file of the list with that base
\* name and extension
Component(files, baseName, ext) ==
    LET found == {i \in 1..Len(files) :
                     files[i].base = baseName /\ LowerExt(files[i].ext) = ext}
    IN  IF found = {} THEN [present |-> FALSE, body |-> [text |-> ""]]
        ELSE [present |-> TRUE,
              body |-> files[CHOOSE i \in found : \A j \in found : j <= i].body]

FileGroup(files, baseName) == [ext \in ShapefileExts |-> Component(files, baseName, ext)]

Task(kind, file, body) ==
    [kind |-> kind, batch |-> passes + 1, base |-> file.base, ext |-> file.ext,
     body |-> body, snap |-> [layers |-> layers, categories |-> categories]]

GroupFile(baseName) == [base |-> baseName, ext |-> "shapefile"]

\* the calls started for the groups that have a .shp and a .dbf file
ShapefileTasksWithDbf(files) ==
    {Task("shapefile", GroupFile(b), FileGroup(files, b)) :
        b \in {g \in GroupNames(files) :
                  FileGroup(files, g)["shp"].present /\ FileGroup(files, g)["dbf"].present}}

\* the processShapefile calls started for the groups that have a .shp file
ShapefileTasks(files) ==
    {Task("shapefile", GroupFile(b), FileGroup(files, b)) :
        b \in {g \in GroupNames(files) : FileGroup(files, g)["shp"].present}}

\* the console.warn of the groups that have none
SkippedGroups(files) ==
    {[src |-> Source(Task("shapefile", GroupFile(b), <<>>)),
      rec |-> [kind |-> "Shapefile group has no .shp file, skipping", index |-> 0,
               pos |-> <<>>]] :
        b \in {g \in GroupNames(files) : ~FileGroup(files, g)["shp"].present}}

ReadExts == {"csv", "xlsx", "xls", "geojson", "json", "kml"}

\* the reads and parses started for the files that are no shapefile component
OtherFileTasks(files) ==
    {Task(LowerExt(files[i].ext), files[i], files[i].body) :
        i \in {j \in 1..Len(files) : LowerExt(files[j].ext) \in ReadExts}}

\* the files and groups of the selection
Selection(files) ==
    {Source(Task("", files[i], <<>>)) : i \in {j \in 1..Len(files) : ~IsComponent(files[j])}}
        \cup {Source(Task("", GroupFile(b), <<>>)) : b \in GroupNames(files)}

HandleFileUpload ==
    /\ Len(inbox) > 0
    /\ pending' = pending \cup ShapefileTasks(inbox) \cup OtherFileTasks(inbox)
    /\ warns' = warns \cup SkippedGroups(inbox)
    /\ selected' = selected \cup Selection(inbox)
    /\ inbox' = <<>>
    /\ passes' = passes + 1
    /\ UNCHANGED drawVars
    /\ UNCHANGED <<layers, categories, alerts, handed, nextId, deleted, selectedLayer,
                   selectedColor>>

\* the end of processShapefile
ShapefileComplete(task) ==
    /\ task \in pending
    /\ task.kind = "shapefile"
    /\ Finish(task, ProcessShapefile(task.body), "Error parsing shapefile: ")

\* processPointData(data, name), which always ends in addLayer
PointResult(data) == [ok |-> TRUE, msg |-> "", data |-> PointGeoJSON(data), warns |-> {}]

\* Papa.parse's complete callback: processPointData(results.data, name)
CsvComplete(task) ==
    /\ task \in pending
    /\ task.kind = "csv"
    /\ Finish(task, PointResult(PapaParse(task.body)), "")

\* reader.onload of an .xlsx / .xls file: XLSX.read and sheet_to_json give
\* the rows of the first sheet, or throw
XlsxOnload(task) ==
    /\ task \in pending
    /\ task.kind \in {"xlsx", "xls"}
    /\ Finish(task,
              IF task.body.readable THEN PointResult(task.body.rows)
              ELSE [ok |-> FALSE, msg |-> "", data |-> PointGeoJSON(<<>>), warns |-> {}],
              "Error parsing XLSX file")

\* reader.onload of a .geojson / .json file: JSON.parse, then processGeoJSON
GeoJsonOnload(task) ==
    /\ task \in pending
    /\ task.kind \in {"geojson", "json"}
    /\ Finish(task,
              IF task.body.parses THEN ProcessGeoJSON(task.body.doc)
              ELSE [ok |-> FALSE, msg |-> "", data |-> Collection(<<>>, NoCrs), warns |-> {}],
              IF task.body.parses THEN "Error processing GeoJSON file: "
              ELSE "Error parsing GeoJSON file")

\* reader.onload of a .kml file: the DOM parser, toGeoJSON.kml, the Placemark
\* properties, then processGeoJSON
KmlOnload(task) ==
    /\ task \in pending
    /\ task.kind = "kml"
    /\ LET parsed == ParseFromString(task.body, FixNamespaces(task.body.text))
       IN  Finish(task,
                  IF ~parsed \/ Len(ToGeoJSON(task.body)) = 0
                  THEN [ok |-> FALSE, msg |-> "", data |-> Collection(<<>>, NoCrs), warns |-> {}]
                  ELSE ProcessGeoJSON(KmlGeoJSON(task.body)),
                  IF ~parsed THEN "Error parsing KML file: Invalid XML format"
                  ELSE IF Len(ToGeoJSON(task.body)) = 0 THEN "KML file contains no features"
                  ELSE "Error processing GeoJSON file: ")

\* JSON.parse(JSON.stringify(v)) of a number: NaN and Infinity become null
JsonValue(v) == IF v.t \in {"nan", "inf", "undefined"} THEN JsNull ELSE v

JsonCoordinates(coords) ==
    [coords EXCEPT !.parts =
        [i \in 1..Len(coords.parts) |->
            [k \in 1..Len(coords.parts[i]) |->
                [n \in 1..Len(coords.parts[i][k]) |-> JsonValue(coords.parts[i][k][n])]]]]

JsonFeature(f) ==
    [f EXCEPT !.geometry.coordinates = JsonCoordinates(f.geometry.coordinates),
              !.properties = [k \in 1..Len(f.properties) |->
                  [key |-> f.properties[k].key, val |-> JsonValue(f.properties[k].val)]]]

\* exportToGeoJSON(layer) = JSON.stringify(layer.data, null, 2), parsed again
ExportToGeoJSON(layer) ==
    [parses |-> TRUE,
     doc |-> [EmptyDoc EXCEPT !.type = layer.data.type, !.featuresIsArray = TRUE,
                !.features = [i \in 1..Len(layer.data.features) |->
                                JsonFeature(layer.data.features[i])],
                !.crs = layer.data.crs]]

MaxPasses == 2

\* the user exports a layer as GeoJSON and selects the exported file for upload
ReimportExported(i) ==
    /\ i \in 1..Len(layers)
    /\ Len(inbox) = 0
    /\ pending = {}
    /\ passes < MaxPasses
    /\ inbox' = <<[base |-> layers[i].name, ext |-> "geojson",
                   body |-> ExportToGeoJSON(layers[i])]>>
    /\ UNCHANGED drawVars
    /\ UNCHANGED <<pending, layers, categories, alerts, warns, handed, nextId, passes,
                   selected, deleted, selectedLayer, selectedColor>>

----------------------------------------------------------------------------
(* Inputs of the point-table specification (bounded input sets)            *)

MaxRows == 2

Headers ==
    {<<"Sites", "X", "Y", "mat">>, <<"Sites", "name", "x", "y">>, <<"mat", "x", "Y">>,
     <<"A", "Name", "x", "y">>}

\* the cell texts a column is varied over
ColTexts(col) ==
    CASE col = "X" -> {"463379", "007", "", "abc", "12abc", "0x10", "true", "Infinity"}
      [] col \in {"x", "Y", "y"} -> {"4063948", "abc"}
      [] ToUpperCase(col) \in {"SITES", "A", "NAME"} -> {"Adissa", "", "0"}
      [] OTHER -> {"argile", "007"}

BaseText(col) ==
    CASE ToUpperCase(col) = "X" -> "463379"
      [] ToUpperCase(col) = "Y" -> "4063948"
      [] ToUpperCase(col) = "SITES" -> "Adissa"
      [] ToUpperCase(col) = "A" -> "Agab"
      [] ToUpperCase(col) = "NAME" -> "Nord"
      [] OTHER -> "argile"

BaseLine(h) == [i \in 1..Len(h) |-> BaseText(h[i])]

\* the lines of a table: the base line with one cell varied, a line that
\* lacks its last cell, an empty line
LinesOf(h) ==
    UNION {{[BaseLine(h) EXCEPT ![i] = t] : t \in ColTexts(h[i])} : i \in 1..Len(h)}
        \cup {SubSeq(BaseLine(h), 1, Len(h) - 1), <<"">>}

SeqsUpTo(S, n) == UNION {[1..k -> S] : k \in 0..n}

CsvTables ==
    UNION {{[header |-> h, lines |-> ls] : ls \in SeqsUpTo(LinesOf(h), MaxRows)} : h \in Headers}

CsvFile(base, table) == [base |-> base, ext |-> "csv", body |-> table]

InitStore ==
    /\ pending = {}
    /\ layers = <<>>
    /\ categories = <<>>
    /\ alerts = <<>>
    /\ warns = {}
    /\ handed = <<>>
    /\ nextId = 1
    /\ passes = 0
    /\ selected = {}
    /\ deleted = {}
    /\ selectedLayer = NoLayer
    /\ selectedColor = "#3b82f6"
    /\ InitDrawTool
    /\ batched = TRUE

InitPoint ==
    /\ inbox \in {<<CsvFile("sites", t)>> : t \in CsvTables}
    /\ InitStore

NextPoint ==
    \/ HandleFileUpload
    \/ \E task \in pending : CsvComplete(task)

SpecPoint == InitPoint /\ [][NextPoint]_vars

----------------------------------------------------------------------------
(* Inputs of the structured-geometry specification (bounded input sets)    *)

MaxFeatures == 2

InRange == Position(9, 36)
Projected == Position(500000, 4000000)
OutOfRange == Position(200, 95)
LonLat == <<[key |-> "lon", val |-> JsNum(10)], [key |-> "lat", val |-> JsStr("35N")]>>
Named == <<[key |-> "name", val |-> JsStr("Adissa")]>>

Entries ==
    {Feature(Geometry("Point", PointCoords(InRange)), LonLat),
     Feature(Geometry("Point", PointCoords(Projected)), LonLat),
     Feature(Geometry("Point", PointCoords(Projected)), <<>>),
     Feature(Geometry("LineString", LineCoords(<<Projected, Position(600000, 4100000)>>)), Named),
     Feature(Geometry("Point", PointCoords(OutOfRange)), <<>>),
     [Feature(NoGeometry, Named) EXCEPT !.hasGeometry = FALSE],
     [Feature(Geometry("Point", PointCoords(InRange)), <<>>) EXCEPT !.type = "Point"],
     [Feature(Geometry("Polygon", PolygonCoords(<<<<InRange, Position(10, 36), InRange>>>>)), <<>>)
         EXCEPT !.hasProperties = FALSE]}

Geometries ==
    {Geometry("Point", PointCoords(InRange)),
     Geometry("LineString", LineCoords(<<InRange, OutOfRange>>)),
     Geometry("MultiPoint", LineCoords(<<Projected>>)),
     [NoGeometry EXCEPT !.type = "Point"],
     Geometry("LineString", PointCoords(InRange))}

CrsBlocks ==
    {NoCrs} \cup {[present |-> TRUE, name |-> n] :
        n \in {"urn:ogc:def:crs:EPSG::32632", "EPSG:22391", "EPSG:4326",
               "urn:ogc:def:crs:OGC:1.3:CRS84", "epsg:2154", ""}}

CollectionDocs ==
    {[EmptyDoc EXCEPT !.type = "FeatureCollection", !.featuresIsArray = TRUE,
                      !.features = fs, !.crs = crs] :
        fs \in SeqsUpTo(Entries, MaxFeatures), crs \in CrsBlocks}

FeatureDocs ==
    {[EmptyDoc EXCEPT !.type = "Feature", !.hasGeometry = e.hasGeometry,
                      !.geometry = e.geometry, !.hasProperties = e.hasProperties,
                      !.properties = e.properties, !.crs = crs] :
        e \in {x \in Entries : x.type = "Feature"}, crs \in CrsBlocks}

GeometryDocs ==
    {[EmptyDoc EXCEPT !.type = g.type, !.hasCoords = g.hasCoords,
                      !.coordinates = g.coordinates, !.crs = crs] :
        g \in Geometries, crs \in CrsBlocks}

GeometryCollectionDocs ==
    {[EmptyDoc EXCEPT !.type = "GeometryCollection", !.geometriesIsArray = TRUE,
                      !.geometries = gs] : gs \in SeqsUpTo(Geometries, MaxFeatures)}

OtherDocs ==
    {[EmptyDoc EXCEPT !.type = "FeatureCollection"],
     [EmptyDoc EXCEPT !.type = "GeometryCollection"],
     [EmptyDoc EXCEPT !.type = "Topology"],
     EmptyDoc,
     [EmptyDoc EXCEPT !.isObject = FALSE]}

GeoDocs == CollectionDocs \cup FeatureDocs \cup GeometryDocs \cup GeometryCollectionDocs \cup OtherDocs

GeoJsonFile(base, ext, body) == [base |-> base, ext |-> ext, body |-> body]

InitGeo ==
    /\ inbox \in {<<GeoJsonFile("parcels", "geojson", [parses |-> TRUE, doc |-> d])>> : d \in GeoDocs}
                \cup {<<GeoJsonFile("parcels", "JSON", [parses |-> FALSE, doc |-> EmptyDoc])>>}
    /\ InitStore

NextGeo ==
    \/ HandleFileUpload
    \/ \E task \in pending : GeoJsonOnload(task)
    \/ \E i \in 1..Len(layers) : ReimportExported(i)

SpecGeo == InitGeo /\ [][NextGeo]_vars

----------------------------------------------------------------------------
(* Inputs of the batch specification: a selection of files of every kind   *)

MaxBatch == 2

PointCollection(pos, properties) ==
    [parses |-> TRUE,
     doc |-> [EmptyDoc EXCEPT !.type = "FeatureCollection", !.featuresIsArray = TRUE,
                !.features = <<Feature(Geometry("Point", PointCoords(pos)), properties)>>]]

\* a Placemark with a Point geometry, as the converter reads it: it sets no
\* properties of its own
Placemark(name, data, coords, style, styleUrl) ==
    [name |-> name, description |-> "", data |-> data, style |-> style,
     styleUrl |-> styleUrl, hasGeometry |-> TRUE, geometry |-> Geometry("Point", coords),
     hasProperties |-> FALSE, properties |-> <<>>]

\* a .kml file: the text of its root tag, its Placemarks and shared styles
KmlDocument(text, placemarks, styles) ==
    [wellFormed |-> TRUE, text |-> text, placemarks |-> placemarks, styles |-> styles]

\* the files of the directory the user selects from, in the order of the
\* file dialog
Catalog ==
    <<[base |-> "sites", ext |-> "csv",
       body |-> [header |-> <<"Sites", "X", "Y">>,
                 lines |-> <<<<"Adissa", "463379", "4063948">>>>]],
      [base |-> "empty", ext |-> "CSV",
       body |-> [header |-> <<"Sites", "X", "Y">>, lines |-> <<>>]],
      [base |-> "wells", ext |-> "xlsx",
       body |-> [readable |-> TRUE,
                 rows |-> <<<<[key |-> "Name", val |-> JsStr("W1")],
                              [key |-> "x", val |-> JsNum(463379)],
                              [key |-> "y", val |-> JsNum(4063948)]>>>>]],
      [base |-> "locked", ext |-> "xls", body |-> [readable |-> FALSE, rows |-> <<>>]],
      [base |-> "parcels", ext |-> "geojson", body |-> PointCollection(InRange, Named)],
      [base |-> "far", ext |-> "json", body |-> PointCollection(OutOfRange, <<>>)],
      [base |-> "none", ext |-> "geojson",
       body |-> [parses |-> TRUE,
                 doc |-> [EmptyDoc EXCEPT !.type = "FeatureCollection",
                                          !.featuresIsArray = TRUE]]],
      [base |-> "broken", ext |-> "geojson", body |-> [parses |-> FALSE, doc |-> EmptyDoc]],
      [base |-> "topo", ext |-> "json",
       body |-> [parses |-> TRUE, doc |-> [EmptyDoc EXCEPT !.type = "Topology"]]],
      [base |-> "untyped", ext |-> "json", body |-> [parses |-> TRUE, doc |-> EmptyDoc]],
      [base |-> "tour", ext |-> "kml",
       body |-> KmlDocument("<kml " \o KmlDeclaration \o ">",
                    <<Placemark(" Tunis ", <<[key |-> "mat", val |-> "007 "]>>,
                                PointCoords(OutOfRange), NoStyle, "")>>, <<>>)],
      [base |-> "blank", ext |-> "kml",
       body |-> KmlDocument("<kml " \o KmlDeclaration \o ">",
                    <<[Placemark("Dossier", <<>>, NoCoords, NoStyle, "")
                          EXCEPT !.hasGeometry = FALSE]>>, <<>>)],
      [base |-> "bad", ext |-> "kml",
       body |-> [KmlDocument("<kml " \o KmlDeclaration \o ">", <<>>, <<>>)
                    EXCEPT !.wellFormed = FALSE]],
      [base |-> "roads", ext |-> "shp",
       body |-> [parsed |-> "array",
                 features |-> <<Feature(Geometry("LineString",
                                    LineCoords(<<Projected, Position(600000, 4100000)>>)),
                                    Named)>>]],
      [base |-> "roads", ext |-> "prj",
       body |-> [text |-> "PROJCS[\"Carthage_UTM_Zone_32N\"]"]],
      [base |-> "points", ext |-> "shp",
       body |-> [parsed |-> "FeatureCollection",
                 features |-> <<Feature(Geometry("Point", PointCoords(OutOfRange)), <<>>)>>]],
      [base |-> "void", ext |-> "SHP",
       body |-> [parsed |-> "FeatureCollection", features |-> <<>>]],
      [base |-> "corrupt", ext |-> "shp", body |-> [parsed |-> "throws", features |-> <<>>]],
      [base |-> "lots", ext |-> "dbf", body |-> [text |-> ""]],
      [base |-> "notes", ext |-> "txt", body |-> [text |-> ""]]>>

\* the files of the catalog at the given positions, in catalog order
Pick(positions) ==
    [k \in 1..Cardinality(positions) |->
        Catalog[CHOOSE i \in positions : Cardinality({j \in positions : j < i}) = k - 1]]

Batches ==
    {Pick(I) : I \in {J \in SUBSET (1..Len(Catalog)) : J # {} /\ Cardinality(J) <= MaxBatch}}

InitBatch ==
    /\ inbox \in Batches
    /\ InitStore

NextBatch ==
    \/ HandleFileUpload
    \/ \E task \in pending : CsvComplete(task)
    \/ \E task \in pending : XlsxOnload(task)
    \/ \E task \in pending : GeoJsonOnload(task)
    \/ \E task \in pending : KmlOnload(task)
    \/ \E task \in pending : ShapefileComplete(task)

SpecBatch == InitBatch /\ [][NextBatch]_vars

----------------------------------------------------------------------------
(* The layer store under concurrent completions and user actions           *)

MaxFiles == 2

\* file i of the selection: parcels.geojson, parcels.json, then other names,
\* each with its own point
StoreFile(i) ==
    [base |-> IF i <= 2 THEN "parcels" ELSE "roads" \o ToString(i),
     ext |-> IF i = 2 THEN "json" ELSE "geojson",
     body |-> PointCollection(Position(i, 36), Named)]

StoreBatch ==
    [i \in 1..MaxFiles |-> StoreFile(i)]
        \o <<[base |-> "broken", ext |-> "geojson",
              body |-> [parses |-> FALSE, doc |-> EmptyDoc]]>>

Init ==
    /\ inbox = StoreBatch
    /\ InitStore

Next ==
    \/ HandleFileUpload
    \/ \E task \in pending : GeoJsonOnload(task)
    \/ \E i \in 1..Len(layers) : SelectLayer(i)
    \/ \E i \in 1..Len(layers) : ToggleLayerVisibility(i)
    \/ \E color \in SidebarColors : HandleColorSelection(color)
    \/ \E i \in 1..Len(layers) : DeleteLayer(i)

Spec == Init /\ [][Next]_vars

----------------------------------------------------------------------------
(* Inputs of the shapefile specification: one group Sites with its         *)
(* companions, and files beside it                                         *)

Far == Position(50000000, 4000000)
ProjectedLine == LineCoords(<<Projected, Position(600000, 4100000)>>)

\* the first feature the shapefile parser returns
ShapeFirsts ==
    {Feature(Geometry("Point", PointCoords(InRange)), Named),
     Feature(Geometry("Point", PointCoords(Position(5000, 4000))), Named),
     Feature(Geometry("Point", PointCoords(Projected)), Named),
     Feature(Geometry("Point", PointCoords(Position(200000, 4000000))), Named),
     Feature(Geometry("LineString", ProjectedLine), Named),
     Feature(Geometry("MultiPoint", LineCoords(<<Projected, <<JsNaN, JsNum(4000000)>>,
                                                 Position(600000, 4100000)>>)), Named),
     Feature(Geometry("LineString", LineCoords(<<Projected, Far>>)), Named),
     Feature(Geometry("Polygon",
                      PolygonCoords(<<<<Projected, Position(600000, 4100000),
                                        Projected>>>>)), Named)}

ShpBodies ==
    {[parsed |-> "FeatureCollection", features |-> <<f>>] : f \in ShapeFirsts}
        \cup {[parsed |-> "throws", features |-> <<>>],
              [parsed |-> "array",
               features |-> <<Feature(Geometry("Point", PointCoords(InRange)), Named),
                              Feature(Geometry("Point", PointCoords(Projected)), <<>>)>>],
              [parsed |-> "Feature",
               features |-> <<Feature(Geometry("Point", PointCoords(Projected)), Named)>>]}

\* contents of the projection component
PrjTexts ==
    {"PROJCS[\"WGS_1984_UTM_Zone_32N\",GEOGCS[\"GCS_WGS_1984\"]]",
     "PROJCS[\"WGS 84 / UTM zone 32N\"]",
     "PROJCS[\"Carthage_UTM_Zone_32N\",SPHEROID[\"Clarke_1880_IGN\"]]",
     "PROJCS[\"Carthage / UTM zone 32N\",TOWGS84[-263,6,431,0,0,0,0]]",
     "PROJCS[\"WGS_1984_UTM_Zone_31N\",GEOGCS[\"GCS_WGS_1984\"]]",
     "PROJCS[\"WGS_1984_UTM_Zone_33S\",GEOGCS[\"GCS_WGS_1984\"]]",
     "PROJCS[\"ED50 / UTM zone 32N\"]",
     "GEOGCS[\"GCS_WGS_1984\"]",
     "PROJCS[\"Carthage\",AUTHORITY[\"EPSG\",\"22391\"]]",
     ""}

ShapeFile(base, ext, body) == [base |-> base, ext |-> ext, body |-> body]

\* the projection component, named as the group or in lower case
PrjFiles ==
    {<<>>} \cup {<<ShapeFile(base, "prj", [text |-> t])>> :
                    base \in {"Sites", "sites"}, t \in PrjTexts}

\* the other companions that are selected with the group
Companions ==
    {(IF "shx" \in c THEN <<ShapeFile("Sites", "shx", [text |-> ""])>> ELSE <<>>)
        \o (IF "dbf" \in c THEN <<ShapeFile("Sites", "DBF", [text |-> ""])>> ELSE <<>>)
        \o (IF "cpg" \in c THEN <<ShapeFile("Sites", "cpg", [text |-> ""])>> ELSE <<>>) :
     c \in SUBSET {"shx", "dbf", "cpg"}}

\* a group without geometry component and a document in EPSG:22391
Beside ==
    <<ShapeFile("lots", "dbf", [text |-> ""]),
      ShapeFile("track", "geojson",
                [parses |-> TRUE,
                 doc |-> [EmptyDoc EXCEPT
                            !.type = "FeatureCollection", !.featuresIsArray = TRUE,
                            !.features = <<Feature(Geometry("LineString",
                                                     LineCoords(<<Far, Projected>>)), <<>>)>>,
                            !.crs = [present |-> TRUE, name |-> EPSG22391]]])>>

ShapeBatches ==
    {<<ShapeFile("Sites", "shp", b)>> \o prj \o c \o other :
        b \in ShpBodies, prj \in PrjFiles, c \in Companions, other \in {<<>>, Beside}}

InitShape ==
    /\ inbox \in ShapeBatches
    /\ InitStore

NextShape ==
    \/ HandleFileUpload
    \/ \E task \in pending : ShapefileComplete(task)
    \/ \E task \in pending : GeoJsonOnload(task)

SpecShape == InitShape /\ [][NextShape]_vars

----------------------------------------------------------------------------
(* Reading text files: FileReader.readAsText(file) and Blob.text() decode  *)
(* the bytes of the file as UTF-8, whatever the file holds                 *)

\* the continuation bytes a lead byte asks for (-1: no lead byte), and the
\* range the first of them must lie in
Utf8Need(b) ==
    IF b < 128 THEN 0
    ELSE IF b >= 194 /\ b <= 223 THEN 1
    ELSE IF b >= 224 /\ b <= 239 THEN 2
    ELSE IF b >= 240 /\ b <= 244 THEN 3
    ELSE -1
Utf8Lower(b) == IF b = 224 THEN 160 ELSE IF b = 240 THEN 144 ELSE 128
Utf8Upper(b) == IF b = 237 THEN 159 ELSE IF b = 244 THEN 143 ELSE 191

RECURSIVE Utf8Decode(_)
\* the code points of the UTF-8 decoding of the bytes: an ill-formed
\* sequence gives U+FFFD (65533) and decoding goes on after its longest
\* well-formed start
Utf8Decode(bytes) ==
    IF Len(bytes) = 0 THEN <<>>
    ELSE LET b == Head(bytes)
             need == Utf8Need(b)
             IsCont(i) == /\ i + 1 <= Len(bytes)
                          /\ bytes[i + 1] >= (IF i = 1 THEN Utf8Lower(b) ELSE 128)
                          /\ bytes[i + 1] <= (IF i = 1 THEN Utf8Upper(b) ELSE 191)
             got == Cardinality({i \in 1..need : \A j \in 1..i : IsCont(j)})
             lead == IF need = 1 THEN b - 192 ELSE IF need = 2 THEN b - 224 ELSE b - 240
             Point[i \in 0..3] ==
                 IF i = 0 THEN lead ELSE Point[i - 1] * 64 + (bytes[i + 1] - 128)
         IN  IF need = 0 THEN <<b>> \o Utf8Decode(Tail(bytes))
             ELSE IF need = -1 THEN <<65533>> \o Utf8Decode(Tail(bytes))
             ELSE IF got = need
             THEN <<Point[need]>> \o Utf8Decode(SubSeq(bytes, need + 2, Len(bytes)))
             ELSE <<65533>> \o Utf8Decode(SubSeq(bytes, got + 2, Len(bytes)))

\* the file as it is read: its bytes, and the text once the read has ended
Unread(bytes) == [bytes |-> bytes, text |-> <<>>, decoded |-> FALSE]

\* reader.readAsText(file) ends (for a .csv file inside Papa.parse): the
\* text its load handler passes to the parser
ReadAsText(task) ==
    /\ task \in pending
    /\ task.kind \in ReadExts
    /\ ~task.body.decoded
    /\ pending' = (pending \ {task})
                      \cup {[task EXCEPT !.body.text = Utf8Decode(task.body.bytes),
                                         !.body.decoded = TRUE]}
    /\ UNCHANGED drawVars
    /\ UNCHANGED <<inbox, layers, categories, alerts, warns, handed, nextId, passes,
                   selected, deleted, selectedLayer, selectedColor>>

\* await fileGroup.prj.text() / fileGroup.cpg.text() in processShapefile
FileText(task, ext) ==
    /\ task \in pending
    /\ task.kind = "shapefile"
    /\ task.body[ext].present
    /\ ~task.body[ext].body.decoded
    /\ pending' = (pending \ {task})
                      \cup {[task EXCEPT
                                !.body[ext].body.text = Utf8Decode(task.body[ext].body.bytes),
                                !.body[ext].body.decoded = TRUE]}
    /\ UNCHANGED drawVars
    /\ UNCHANGED <<inbox, layers, categories, alerts, warns, handed, nextId, passes,
                   selected, deleted, selectedLayer, selectedColor>>

MaxBytes == 3

\* B, the bytes of e-acute, a-grave and the right single quotation mark in
\* the Western single-byte encoding, and those of e-acute in UTF-8 (195 169)
TextBytes == {66, 233, 224, 146, 195, 169}

ByteTexts == UNION {[1..n -> TextBytes] : n \in 1..MaxBytes}

TextFiles ==
    {<<[base |-> "sites", ext |-> ext, body |-> Unread(bytes)]>> :
        ext \in {"csv", "kml"}, bytes \in ByteTexts}
    \cup {<<[base |-> "Sites", ext |-> "shp", body |-> [parsed |-> "throws", features |-> <<>>]],
            [base |-> "Sites", ext |-> ext, body |-> Unread(bytes)]>> :
        ext \in {"prj", "cpg"}, bytes \in ByteTexts}

InitText ==
    /\ inbox \in TextFiles
    /\ InitStore

NextText ==
    \/ HandleFileUpload
    \/ \E task \in pending : ReadAsText(task)
    \/ \E task \in pending : \E ext \in {"prj", "cpg"} : FileText(task, ext)

SpecText == InitText /\ [][NextText]_vars

----------------------------------------------------------------------------
(* Inputs of the markup specification: one .kml file, its root tag, its    *)
(* Placemarks and their styles                                             *)

KmlRoots ==
    {"<kml>",
     "<kml " \o KmlDeclaration \o ">",
     "<kml xmlns='http://www.opengis.net/kml/2.2'>",
     "<kml xmlns=\"http://earth.google.com/kml/2.1\">",
     "<kml xmlns:gx=\"http://www.google.com/kml/ext/2.2\">",
     "<kml xsi:schemaLocation=\"http://www.opengis.net/kml/2.2 ogckml22.xsd\">",
     "<kml " \o KmlDeclaration \o " xsi:schemaLocation=\"ogckml22.xsd\">",
     "<kml " \o KmlDeclaration \o " " \o XsiDeclaration
         \o " xsi:schemaLocation=\"ogckml22.xsd\">",
     "<KML " \o XsiDeclaration \o " xsi:schemaLocation=\"ogckml22.xsd\">"}

KmlColors == {"", "7f0000ff", " FF00ff80 ", "0000ff", "#ff0000", "rgb(255, 0, 16)", "red"}

KmlStyles ==
    {[present |-> TRUE, id |-> "",
      poly |-> [present |-> TRUE, color |-> color, fill |-> fill,
                hasFillOpacity |-> opacity # "-", fillOpacity |-> IF opacity = "-" THEN "" ELSE opacity],
      icon |-> [present |-> icon # "", color |-> icon]] :
        color \in KmlColors, fill \in {"", "1", "0"}, opacity \in {"-", "0.5"},
        icon \in {"", "ff336699"}}
    \cup {[NoStyle EXCEPT !.present = TRUE, !.icon = [present |-> TRUE, color |-> "ff336699"]]}

\* a folder note: a Placemark without geometry, which yields no feature
Note ==
    [Placemark("Note", <<[key |-> "mat", val |-> "001"]>>, NoCoords, NoStyle, "")
        EXCEPT !.hasGeometry = FALSE]

\* the documents: a styled Placemark, its style inline or shared, alone or
\* after a note; and two Placemarks with their own data around or after a note
KmlDocuments ==
    {KmlDocument(root, <<Placemark("Tunis", <<>>, PointCoords(InRange), NoStyle, "")>>, <<>>) :
        root \in KmlRoots}
    \cup UNION {{KmlDocument("<kml " \o KmlDeclaration \o ">",
                     before \o <<Placemark("Tunis", <<[key |-> "mat", val |-> "002"]>>,
                                           PointCoords(InRange), style, "")>>, <<>>),
                 KmlDocument("<kml " \o KmlDeclaration \o ">",
                     before \o <<Placemark("Tunis", <<[key |-> "mat", val |-> "002"]>>,
                                           PointCoords(InRange), NoStyle, url)>>,
                     <<[NoStyle EXCEPT !.present = TRUE, !.id = "other"],
                       [style EXCEPT !.id = "zone"]>>)} :
                style \in KmlStyles, before \in {<<>>, <<Note>>}, url \in {"#zone", "zone"}}
    \cup {KmlDocument("<kml " \o KmlDeclaration \o ">",
              SubSeq(<<Placemark("Sfax", <<[key |-> "mat", val |-> "003"]>>,
                                 PointCoords(InRange), NoStyle, ""),
                       Note,
                       Placemark("Tunis", <<[key |-> "mat", val |-> "002"]>>,
                                 PointCoords(InRange), NoStyle, "")>>, from, 3), <<>>) :
          from \in 1..2}

InitKml ==
    /\ inbox \in {<<[base |-> "zones", ext |-> "kml", body |-> doc]>> : doc \in KmlDocuments}
    /\ InitStore

NextKml ==
    \/ HandleFileUpload
    \/ \E task \in pending : KmlOnload(task)

SpecKml == InitKml /\ [][NextKml]_vars

----------------------------------------------------------------------------
(* The category map under uploads, deletions and category moves            *)

\* parcels.geojson and a file of another name; a layer can be exported and
\* the exported file selected again
InitCategories ==
    /\ inbox = <<StoreFile(1), StoreFile(3)>>
    /\ InitStore

NextCategories ==
    \/ HandleFileUpload
    \/ \E task \in pending : GeoJsonOnload(task)
    \/ \E i \in 1..Len(layers) : DeleteLayer(i)
    \/ \E i \in 1..Len(layers) : ReimportExported(i)
    \/ \E name \in CategoryNames(categories) : \E direction \in {"up", "down"} :
           MoveCategory(name, direction)

SpecCategories == InitCategories /\ [][NextCategories]_vars

----------------------------------------------------------------------------
(* The draw tool under mouse events and tool changes                       *)

Tools == {"select", "pan", "draw", "erase"}

InitDraw ==
    /\ inbox = <<>>
    /\ pending = {}
    /\ layers = <<>>
    /\ categories = <<>>
    /\ alerts = <<>>
    /\ warns = {}
    /\ handed = <<>>
    /\ nextId = 1
    /\ passes = 0
    /\ selected = {}
    /\ deleted = {}
    /\ selectedLayer = NoLayer
    /\ selectedColor = "#3b82f6"
    /\ InitDrawTool
    /\ batched \in BOOLEAN

NextDraw ==
    \/ MouseDown
    \/ MouseMove
    \/ MouseUp
    \/ PointerCrosses
    \/ ButtonBesideMap
    \/ \E tool \in Tools : SetTool(tool)

SpecDraw == InitDraw /\ [][NextDraw]_vars

----------------------------------------------------------------------------
(* Claims about the point-table path (specification SpecPoint)             *)

\* the row emits a feature
Emits(row) == RowPasses(row) /\ ~RowFeature(row).null
\* the records of a table that emitted a feature, in order
EmittedRows(table) == SelectSeq(PapaParse(table), Emits)
\* the lines of a table whose record emitted a feature, in order
EmittedLines(table) ==
    SelectSeq(SelectLines(table.lines), LAMBDA l : Emits(PapaRow(table.header, l)))

\* the value parses as a finite number: a finite number, or a text that is a
\* numeric literal (not empty, not a boolean, not null)
ParsesAsFiniteNumber(v) ==
    \/ v.t = "number"
    \/ v.t = "string" /\ Len(Trim(v.s)) > 0 /\ StringToNumber(v.s).t = "number"

\* the row has a column named X and one named Y, in any letter case, and both
\* values parse as finite numbers
HasNumericXY(row) ==
    /\ \E i \in 1..Len(row) : row[i].key \in {"X", "x"} /\ ParsesAsFiniteNumber(row[i].val)
    /\ \E i \in 1..Len(row) : row[i].key \in {"Y", "y"} /\ ParsesAsFiniteNumber(row[i].val)

CsvHandoffs == {i \in 1..Len(handed) : handed[i].task.kind = "csv"}

\* C5: processPointData emits exactly one Point feature, in row order, for each
\* row with an X and a Y column (any case) whose values both parse as finite
\* numbers, and no feature for any other row.
C5_OneFeaturePerValidRow ==
    \A h \in CsvHandoffs :
        LET rows == SelectSeq(PapaParse(handed[h].task.body), HasNumericXY)
            fs == handed[h].data.features
        IN  /\ Len(fs) = Len(rows)
            /\ \A i \in 1..Len(fs) :
                /\ fs[i].type = "Feature"
                /\ fs[i].geometry.type = "Point"
                /\ fs[i].geometry.coordinates.depth = 0
                /\ \A k \in 1..Len(rows[i]) :
                      rows[i][k].key \notin {"name", "x", "y"}
                          => Get(fs[i].properties, rows[i][k].key) = rows[i][k].val

\* C5 witness: a table of two rows, one valid and one not, produced one feature
C5_Witness ==
    \E h \in CsvHandoffs :
        /\ Len(PapaParse(handed[h].task.body)) = 2
        /\ Len(handed[h].data.features) = 1
        /\ ~HasNumericXY(PapaParse(handed[h].task.body)[1])

IsAliasColumn(key) == ToUpperCase(key) \in {"SITES", "A", "NAME"}

\* C6 (as claimed): a feature's name is the row's `name` column unchanged when
\* the row has one, otherwise the first alias column (Sites, A, Name), and
\* "Unnamed" only when the row has neither.
C6_NameColumnUnchanged ==
    \A h \in CsvHandoffs :
        LET rows == EmittedRows(handed[h].task.body)
            fs == handed[h].data.features
        IN  \A i \in 1..Len(fs) :
                LET name == Get(fs[i].properties, "name")
                    alias == FindKeyIndex(rows[i], {"SITES", "A", "NAME"})
                IN  IF HasKey(rows[i], "name") THEN name = Get(rows[i], "name")
                    ELSE IF alias # 0 THEN name = rows[i][alias].val
                    ELSE name = JsStr("Unnamed")

\* C6 (amended): a feature's name is the row's `name` value when that value is
\* truthy (not empty, null, 0 or false); otherwise it is the value of the first
\* column of the row named Sites, A or Name in any letter case (the `name` column
\* is one of them); it is "Unnamed" exactly when the row has no such column.
C6_NameRule ==
    \A h \in CsvHandoffs :
        LET rows == EmittedRows(handed[h].task.body)
            fs == handed[h].data.features
        IN  \A i \in 1..Len(fs) :
                LET name == Get(fs[i].properties, "name")
                    aliases == {k \in 1..Len(rows[i]) : IsAliasColumn(rows[i][k].key)}
                IN  /\ Truthy(Get(rows[i], "name")) => name = Get(rows[i], "name")
                    /\ (~Truthy(Get(rows[i], "name")) /\ aliases # {})
                          => \E k \in aliases :
                                /\ \A j \in aliases : k <= j
                                /\ name = rows[i][k].val
                    /\ (name = JsStr("Unnamed")) <=> (aliases = {})

\* C6 witness: a row with an empty `name` cell after a Sites column got the
\* Sites value as its name
C6_Witness ==
    \E h \in CsvHandoffs :
        \E i \in 1..Len(handed[h].data.features) :
            LET row == EmittedRows(handed[h].task.body)[i]
            IN  /\ HasKey(row, "name")
                /\ ~Truthy(Get(row, "name"))
                /\ HasKey(row, "Sites")
                /\ Get(handed[h].data.features[i].properties, "name") = Get(row, "Sites")
                /\ Get(row, "Sites") # Get(row, "name")

\* C7: every cell of a delimited-text row is copied into the feature's
\* properties as the exact text of the cell ("007" stays "007"); the reader
\* never converts a cell to a number, a boolean or null.  Stated for the
\* columns processPointData does not overwrite (name, x, y).
C7_CellsStayText ==
    \A h \in CsvHandoffs :
        LET table == handed[h].task.body
            ls == EmittedLines(table)
            fs == handed[h].data.features
        IN  \A i \in 1..Len(fs) :
                \A k \in 1..Min(Len(table.header), Len(ls[i])) :
                    table.header[k] \notin {"name", "x", "y"}
                        => Get(fs[i].properties, table.header[k]) = JsStr(ls[i][k])

----------------------------------------------------------------------------
(* Claims about processGeoJSON (specification SpecGeo)                     *)

\* nothing is left to run
Quiescent == Len(inbox) = 0 /\ pending = {}

\* the calls of addLayer and the alerts made for a file or group
Handoffs(u) == {h \in 1..Len(handed) : Source(handed[h].task) = u}
AlertsFor(u) == {a \in 1..Len(alerts) : alerts[a].src = u}
\* the file's or group's processing has ended
Finished(u) == u \in selected /\ \A task \in pending : Source(task) # u

GeoHandoffs == {h \in 1..Len(handed) : handed[h].task.kind \in {"geojson", "json"}}

\* C1: for every document (so for every document of type FeatureCollection,
\* Feature, GeometryCollection or one of the six coordinate geometry types)
\* processGeoJSON either hands the layer store an object of type
\* FeatureCollection whose features all have type Feature, or reports an
\* error for the file, and never both; a bare Feature or bare geometry is
\* never handed over.
C1_CollectionOrFailure ==
    /\ \A h \in GeoHandoffs :
          /\ handed[h].data.type = "FeatureCollection"
          /\ \A i \in 1..Len(handed[h].data.features) :
                handed[h].data.features[i].type = "Feature"
    /\ \A u \in selected :
          (Finished(u) /\ LowerExt(u.ext) \in {"geojson", "json"})
              => Cardinality(Handoffs(u)) + Cardinality(AlertsFor(u)) = 1

\* C1 witness: a bare geometry document was handed over as a collection of
\* one Feature wrapping it
C1_Witness ==
    \E h \in GeoHandoffs :
        /\ handed[h].task.body.doc.type \in GeometryTypes
        /\ handed[h].data.type = "FeatureCollection"
        /\ Len(handed[h].data.features) = 1
        /\ handed[h].data.features[1].geometry.type = handed[h].task.body.doc.type
        /\ AlertsFor(Source(handed[h].task)) = {}

\* C8: when the CRS block of a document resolves to a registered SRS other
\* than WGS84, every feature handed over has canonical coordinates: a Point
\* feature with lon and lat properties has [lon, lat], every other feature
\* has its coordinates transformed from the source SRS, also in a collection
\* that mixes both kinds.
C8_EveryFeatureCanonical ==
    \A h \in GeoHandoffs :
        LET doc == handed[h].task.body.doc
            source == SourceCRS(doc.crs)
            before == NormalizeShape(doc).data.features
            after == handed[h].data.features
        IN  source \in ProjDefs \ {EPSG4326}
                => \A i \in 1..Len(after) :
                      after[i].geometry.coordinates =
                          IF TakesLonLat(before[i])
                          THEN PointCoords(<<ParseFloat(Get(before[i].properties, "lon")),
                                             ParseFloat(Get(before[i].properties, "lat"))>>)
                          ELSE TransformCoordinates(source, before[i].geometry.coordinates)

\* every position of the geometry's coordinates
Positions(geometry) ==
    IF ~geometry.hasCoords THEN {}
    ELSE UNION {{geometry.coordinates.parts[i][k] :
                    k \in 1..Len(geometry.coordinates.parts[i])} :
                 i \in 1..Len(geometry.coordinates.parts)}

\* a FeatureCollection document without CRS block whose entries are all
\* Features with coordinates inside the WGS84 ranges
IsWGS84Collection(doc) ==
    /\ doc.isObject /\ doc.type = "FeatureCollection" /\ doc.featuresIsArray
    /\ ~doc.crs.present
    /\ Len(doc.features) > 0
    /\ \A i \in 1..Len(doc.features) :
          /\ doc.features[i].type = "Feature"
          /\ doc.features[i].hasGeometry
          /\ doc.features[i].geometry.hasCoords
          /\ \A pos \in Positions(doc.features[i].geometry) :
                /\ Len(pos) >= 2 /\ pos[1].t = "number" /\ pos[2].t = "number"
                /\ ~OutsideWGS84(pos)

\* C10: a WGS84 feature collection without CRS block passed through
\* processGeoJSON, and its exported result passed through it again, yield the
\* feature sequence of the input both times: same geometries, coordinates
\* and properties (an absent property bag reads as the empty one), nothing
\* transformed, substituted or dropped.
C10_SecondPassSameFeatures ==
    (Len(handed) > 0 /\ IsWGS84Collection(handed[1].task.body.doc))
        => \A h \in 1..Len(handed) :
              LET entries == handed[1].task.body.doc.features
              IN  handed[h].data.features =
                      [i \in 1..Len(entries) |->
                          Feature(entries[i].geometry,
                                  IF entries[i].hasProperties THEN entries[i].properties
                                  ELSE <<>>)]

\* C10 witness: the export of a layer made from a WGS84 collection of two
\* features, one a Point with lon / lat properties that differ from its
\* coordinates, went through processGeoJSON a second time
C10_Witness ==
    /\ Len(handed) = 2
    /\ handed[2].task.batch = 2
    /\ IsWGS84Collection(handed[1].task.body.doc)
    /\ Len(handed[2].data.features) = 2
    /\ \E i \in 1..2 : TakesLonLat(handed[2].data.features[i])

----------------------------------------------------------------------------
(* Claims about the ingestion paths of a batch (specification SpecBatch)   *)

\* C2: every feature collection handed to addLayer, by any ingestion path,
\* has at least one feature.
C2_HandedCollectionsNonEmpty ==
    \A h \in 1..Len(handed) : Len(handed[h].data.features) > 0

\* C3: once nothing is left to run, every selected file and every shapefile
\* group has ended in exactly one outcome: one layer handed to the layer
\* store, or one alert naming it.
C3_ExactlyOneOutcome ==
    Quiescent => \A u \in selected : Cardinality(Handoffs(u)) + Cardinality(AlertsFor(u)) = 1

\* C9: every position of a handed-over feature that lies outside longitude
\* [-180, 180] or latitude [-90, 90] has a logged warning for that file, on
\* every ingestion path.
C9_OutOfRangeWarned ==
    \A h \in 1..Len(handed) :
        \A i \in 1..Len(handed[h].data.features) :
            \A pos \in Positions(handed[h].data.features[i].geometry) :
                OutsideWGS84(pos)
                    => \E w \in warns :
                          /\ w.src = Source(handed[h].task)
                          /\ w.rec.index = i - 1
                          /\ w.rec.pos = pos

----------------------------------------------------------------------------
(* Claims about the layer store (specification Spec)                       *)

LayerIds == {layers[i].id : i \in 1..Len(layers)}

\* the files of the selection that complete normalization
Completing ==
    {i \in 1..Len(StoreBatch) :
        StoreBatch[i].body.parses /\ ProcessGeoJSON(StoreBatch[i].body.doc).ok}

\* C4: under every interleaving of the completions with each other and with
\* deletions, visibility toggles and colour changes, the layer store holds
\* exactly one layer for each completed normalization that the user did not
\* delete, each with the feature collection handed over for it; once all
\* completions have run, k completing files have made k layers.
C4_NoLayerLostOrDuplicated ==
    /\ Cardinality(LayerIds) = Len(layers)
    /\ LayerIds = {handed[h].id : h \in 1..Len(handed)} \ deleted
    /\ \A i \in 1..Len(layers) :
          \E h \in 1..Len(handed) :
              /\ handed[h].id = layers[i].id
              /\ layers[i].data = handed[h].data
              /\ layers[i].data = ProcessGeoJSON(handed[h].task.body.doc).data
              /\ layers[i].name = handed[h].task.base
    /\ (Quiescent /\ passes > 0)
          => Len(layers) + Cardinality(deleted) = Cardinality(Completing)

\* C4 witness: all completions have run, one layer was deleted and another
\* hidden and recoloured, and the later layers are in the store
C4_Witness ==
    /\ Quiescent /\ passes > 0
    /\ Len(handed) >= 2
    /\ deleted = {handed[1].id}
    /\ Len(layers) >= 1
    /\ \E i \in 1..Len(layers) :
          ~layers[i].visible /\ layers[i].color \in SidebarColors

----------------------------------------------------------------------------
(* Claims about the type dispatch of processGeoJSON (specification         *)
(* SpecBatch)                                                              *)

SupportedTypes == GeometryTypes \cup {"FeatureCollection", "Feature", "GeometryCollection"}

\* a parsed document whose `type` is none of the supported ones, or absent
UnsupportedType(task) ==
    /\ task.kind \in {"geojson", "json"}
    /\ task.body.parses
    /\ task.body.doc.isObject
    /\ task.body.doc.type \notin SupportedTypes

\* C11: when processGeoJSON ends for a document whose `type` is not
\* FeatureCollection, Feature, GeometryCollection or one of the six
\* coordinate geometry types (or that has no `type`), it raises one alert
\* for that file whose message names the received type ("unknown" when
\* there is none), hands no layer over, and leaves the layer store and
\* the category map as they were.
C11_UnsupportedTypeFails ==
    [][\A task \in pending :
          (UnsupportedType(task) /\ task \notin pending')
              => /\ layers' = layers
                 /\ categories' = categories
                 /\ handed' = handed
                 /\ Len(alerts') = Len(alerts) + 1
                 /\ SubSeq(alerts', 1, Len(alerts)) = alerts
                 /\ alerts'[Len(alerts')].src = Source(task)
                 /\ Includes(alerts'[Len(alerts')].msg,
                             "Unsupported GeoJSON type: " \o
                                 (IF task.body.doc.type = "" THEN "unknown"
                                  ELSE task.body.doc.type))]_vars

\* a document of type Topology has failed after another file of the batch
\* made a layer
C11_Witness ==
    /\ Len(layers) > 0
    /\ \E a \in 1..Len(alerts) :
          /\ alerts[a].src.base = "topo"
          /\ Includes(alerts[a].msg, "Unsupported GeoJSON type: Topology")
          /\ \E h \in 1..Len(handed) : handed[h].task.batch = alerts[a].src.batch

----------------------------------------------------------------------------
(* Claims about the shapefile path (specification SpecShape)               *)

\* handleFileUpload takes the selection
Uploading == Len(inbox) > 0 /\ inbox' = <<>>

\* C12: every component of the selection whose base name equals that of a
\* .shp file up to letter case is placed in the group processed for that
\* .shp file.
C12_GroupedUpToCase ==
    [][\A i, j \in 1..Len(inbox) :
          (/\ Uploading
           /\ LowerExt(inbox[i].ext) = "shp"
           /\ IsComponent(inbox[j])
           /\ ToUpperCase(inbox[i].base) = ToUpperCase(inbox[j].base))
              => \E task \in pending' :
                    /\ task.kind = "shapefile"
                    /\ task.base = inbox[i].base
                    /\ task.body[LowerExt(inbox[j].ext)].present]_vars

----------------------------------------------------------------------------
(* Claims about the text handed to the parsers (specification SpecText)    *)

\* the files read as text: their bytes and the text handed on
TextsRead ==
    {task.body : task \in {t \in pending : t.kind \in ReadExts /\ t.body.decoded}}
        \cup UNION {{task.body[ext].body :
                        ext \in {e \in {"prj", "cpg"} :
                                   task.body[e].present /\ task.body[e].body.decoded}} :
                    task \in {t \in pending : t.kind = "shapefile"}}

\* the bytes are well-formed UTF-8 (none of TextBytes encodes U+FFFD itself)
IsUtf8(bytes) == \A i \in 1..Len(Utf8Decode(bytes)) : Utf8Decode(bytes)[i] # 65533

\* the code point of a byte in the Western single-byte encoding: the bytes
\* below 128 and from 160 on stand for the code point of the same number,
\* those between for punctuation and a few letters
WesternPoint(b) ==
    CASE b = 128 -> 8364 [] b = 130 -> 8218 [] b = 131 -> 402 [] b = 132 -> 8222
      [] b = 133 -> 8230 [] b = 134 -> 8224 [] b = 135 -> 8225 [] b = 136 -> 710
      [] b = 137 -> 8240 [] b = 138 -> 352 [] b = 139 -> 8249 [] b = 140 -> 338
      [] b = 142 -> 381 [] b = 145 -> 8216 [] b = 146 -> 8217 [] b = 147 -> 8220
      [] b = 148 -> 8221 [] b = 149 -> 8226 [] b = 150 -> 8211 [] b = 151 -> 8212
      [] b = 152 -> 732 [] b = 153 -> 8482 [] b = 154 -> 353 [] b = 155 -> 8250
      [] b = 156 -> 339 [] b = 158 -> 382 [] b = 159 -> 376
      [] OTHER -> b

WesternText(bytes) == [i \in 1..Len(bytes) |-> WesternPoint(bytes[i])]

\* C14: the text handed to the parser for a CSV, KML, PRJ or CPG file whose
\* bytes are not well-formed UTF-8 but are text in the Western single-byte
\* encoding is the text of that encoding, with its accented characters
\* and without replacement character.
C14_LegacyTextDecoded ==
    \A read \in TextsRead :
        ~IsUtf8(read.bytes)
            => /\ read.text = WesternText(read.bytes)
               /\ \A i \in 1..Len(read.text) : read.text[i] # 65533

----------------------------------------------------------------------------
(* Claims about the collections processGeoJSON builds (specification       *)
(* SpecGeo)                                                                *)

\* processGeoJSON ends for a parsed document of the given type
Ends(task, type) ==
    /\ task.kind \in {"geojson", "json"}
    /\ task.body.parses
    /\ task.body.doc.isObject
    /\ task.body.doc.type = type
    /\ task \notin pending'

\* the entry has type Feature and a geometry with coordinates
IsFeatureEntry(e) == e.type = "Feature" /\ e.hasGeometry /\ e.geometry.hasCoords

\* the k-th smallest element of a set of indices
Nth(S, k) == CHOOSE i \in S : Cardinality({j \in S : j < i}) = k - 1

\* the warnings of skipped entries logged for the task in this step
SkipsLogged(task) ==
    {w \in warns' \ warns : w.src = Source(task) /\ IsPrefix("Skipping", w.rec.kind)}

C16_WrapsGeometriesAndWarns ==
    [][\A task \in pending :
          Ends(task, "GeometryCollection")
              => LET doc == task.body.doc
                     kept == {i \in 1..Len(doc.geometries) : doc.geometries[i].hasCoords}
                     out == handed'[Len(handed')].data.features
                 IN  /\ IF ~doc.geometriesIsArray \/ kept = {}
                        THEN /\ handed' = handed
                             /\ layers' = layers
                             /\ Len(alerts') = Len(alerts) + 1
                        ELSE Len(handed') = Len(handed) + 1
                                => /\ Len(out) = Cardinality(kept)
                                   /\ \A k \in 1..Len(out) :
                                         /\ out[k].geometry.type
                                               = doc.geometries[Nth(kept, k)].type
                                         /\ out[k].properties = <<>>
                     /\ \A i \in (1..Len(doc.geometries)) \ kept :
                           \E w \in SkipsLogged(task) : w.rec.index = i - 1]_vars

----------------------------------------------------------------------------
(* Claims about projection and the assumed reference system               *)
(* (specification SpecShape)                                               *)

\* the reference system the coordinates of the task are projected from
SourceOf(task) ==
    IF task.kind = "shapefile"
    THEN LET fromPrj == ExtractEPSGFromPRJ(IF task.body["prj"].present
                                           THEN task.body["prj"].body.text ELSE "")
         IN  IF fromPrj # "" THEN fromPrj
             ELSE IF task.body["shp"].body.parsed = "Feature" THEN ""
             ELSE DetectCRSFromCoordinates(task.body["shp"].body.features)
    ELSE SourceCRS(task.body.doc.crs)

\* the features the task projects
FeaturesOf(task) ==
    IF task.kind = "shapefile" THEN task.body["shp"].body.features
    ELSE task.body.doc.features

\* the task ends with a layer
HandsOver(task) ==
    /\ task \in pending
    /\ task \notin pending'
    /\ Len(handed') = Len(handed) + 1

\* C17: in a layer made by projecting from a reference system, every
\* feature of the input is present with the nesting of its coordinates;
\* a position whose projection throws or gives a non-finite result has
\* its original value, and every other position of the geometry is the
\* projected one.
C17_FailedPositionsKept ==
    [][\A task \in pending :
          (HandsOver(task) /\ SourceOf(task) \notin {"", EPSG4326})
              => LET in == FeaturesOf(task)
                     out == handed'[Len(handed')].data.features
                 IN  /\ Len(out) = Len(in)
                     /\ \A i \in 1..Len(in) :
                           LET c == in[i].geometry.coordinates
                               d == out[i].geometry.coordinates
                           IN  /\ d.depth = c.depth
                               /\ Len(d.parts) = Len(c.parts)
                               /\ \A j \in 1..Len(c.parts) :
                                     /\ Len(d.parts[j]) = Len(c.parts[j])
                                     /\ \A k \in 1..Len(c.parts[j]) :
                                           LET pos == c.parts[j][k]
                                               p == Proj4ToWGS84(SourceOf(task), pos[1], pos[2])
                                           IN  d.parts[j][k] =
                                                 IF p.threw \/ ~IsFinite(p.lon) \/ ~IsFinite(p.lat)
                                                 THEN pos
                                                 ELSE <<p.lon, p.lat>>]_vars

\* the shapefile groups that made a layer and had a projection component
\* without authority code
PrjHandoffs ==
    {h \in 1..Len(handed) :
        /\ handed[h].task.kind = "shapefile"
        /\ handed[h].task.body["prj"].present
        /\ ~Includes(ToUpperCase(handed[h].task.body["prj"].body.text), "EPSG")}

PrjText(h) == handed[h].task.body["prj"].body.text

\* the reference system transformGeoJSONCoordinates was given and found
\* unregistered
UnknownCRSLogged(h, code) ==
    \E w \in warns :
        w.src = Source(handed[h].task) /\ w.rec.kind = "Unknown CRS " \o code

UtmZones == (1..60) \ {32}

\* C18: for a projection text without authority code that names the WGS84
\* UTM zone Z, a zone outside the registry, the reference system resolved
\* (and reported as unregistered by the transformation) is EPSG:(32600+Z)
\* for a northern zone and EPSG:(32700+Z) for a southern one.
C18_UtmZoneFromText ==
    \A h \in PrjHandoffs : \A Z \in UtmZones :
        /\ Includes(PrjText(h), "WGS_1984_UTM_Zone_" \o ToString(Z) \o "N")
              => UnknownCRSLogged(h, "EPSG:" \o ToString(32600 + Z))
        /\ Includes(PrjText(h), "WGS_1984_UTM_Zone_" \o ToString(Z) \o "S")
              => UnknownCRSLogged(h, "EPSG:" \o ToString(32700 + Z))

\* the text names UTM zone 32
NamesZone32(text) == HasZone32(text) /\ Includes(ToUpperCase(text), "UTM")

\* the text names the Carthage datum or the Clarke 1880 ellipsoid
NamesCarthage(text) == \E n \in CarthageNames : Includes(text, n)

\* the text names WGS84 as projected system, geographic system or datum
\* (a TOWGS84 parameter list does not)
NamesWGS84(text) == Includes(text, "\"WGS") \/ Includes(text, "_WGS")

\* C19: a projection text without authority code that names UTM zone 32
\* with Carthage / Clarke 1880 resolves to EPSG:22391 whatever else it
\* carries, and a text resolves to EPSG:32632 only when it names WGS84.
C19_CarthageBeforeWGS84 ==
    \A h \in PrjHandoffs :
        /\ (NamesZone32(PrjText(h)) /\ NamesCarthage(PrjText(h)))
              => ExtractEPSGFromPRJ(PrjText(h)) = EPSG22391
        /\ ExtractEPSGFromPRJ(PrjText(h)) = EPSG32632 => NamesWGS84(PrjText(h))

\* the shapefile groups that made a layer of the features the parser
\* returned, for which the projection component gave no reference system
UnprojectedHandoffs ==
    {h \in 1..Len(handed) :
        /\ handed[h].task.kind = "shapefile"
        /\ handed[h].task.body["shp"].body.parsed # "Feature"
        /\ ExtractEPSGFromPRJ(IF handed[h].task.body["prj"].present
                               THEN handed[h].task.body["prj"].body.text ELSE "") = ""}

\* the first number of the coordinates of a geometry, at any nesting
FirstNumber(geometry) == geometry.coordinates.parts[1][1][1]

\* C20: when the projection component gives no reference system, the first
\* coordinate of the first feature decides, whatever the geometry type:
\* beyond 180 in absolute value the layer holds the coordinates projected
\* from one of the two registered UTM systems, chosen by the easting band;
\* otherwise it holds the coordinates of the file.
C20_MagnitudeDecides ==
    \A h \in UnprojectedHandoffs :
        LET in == handed[h].task.body["shp"].body.features
            out == handed[h].data.features
            x == FirstNumber(in[1].geometry)
            band == x.n >= 300000 /\ x.n <= 900000
        IN  IF AbsGreater(x, 180)
            THEN out = TransformGeoJSONCoordinates(in, IF band THEN EPSG32632 ELSE EPSG22391)
            ELSE out = in

\* C21: whatever the shapefile parser returned (a FeatureCollection, an
\* array of features or a single Feature), the value processShapefile hands
\* to the layer store has type FeatureCollection and a `features` array
\* with the features the parser returned.
C21_HandsFeatureCollection ==
    \A h \in 1..Len(handed) :
        handed[h].task.kind = "shapefile"
            => /\ handed[h].data.type = "FeatureCollection"
               /\ Len(handed[h].data.features)
                     = Len(handed[h].task.body["shp"].body.features)

----------------------------------------------------------------------------
(* Claims about validation and the cleared CRS block (specification        *)
(* SpecGeo)                                                                *)

\* processGeoJSON ends for a document that it normalized, so that it
\* reached the validation of the coordinate ranges
EndsValidated(task) ==
    /\ task.kind \in {"geojson", "json"}
    /\ task.body.parses
    /\ task \notin pending'
    /\ NormalizeShape(task.body.doc).ok

\* C22: validation only logs: every collection that reached it is handed
\* to the layer store with the features, order, coordinates and properties
\* it had before validation, and no alert is raised for its file.
C22_ValidationOnlyLogs ==
    [][\A task \in pending :
          EndsValidated(task)
              => /\ Len(handed') = Len(handed) + 1
                 /\ handed'[Len(handed')].data
                       = Canonicalize(NormalizeShape(task.body.doc).data)
                 /\ alerts' = alerts]_vars

----------------------------------------------------------------------------
(* Claims about the markup path (specification SpecKml)                    *)

\* the handoffs of .kml files
KmlHandoffs == {h \in 1..Len(handed) : handed[h].task.kind = "kml"}

\* the Placemark the i-th converted feature was made from
Origin(kml, i) ==
    kml.placemarks[CHOOSE p \in 1..Len(kml.placemarks) :
        /\ kml.placemarks[p].hasGeometry
        /\ Cardinality({q \in 1..p : kml.placemarks[q].hasGeometry}) = i]

\* C23: for every Placemark whose own or referenced style has a PolyStyle
\* colour of eight hexadecimal digits AABBGGRR, the fill property of its
\* feature is # followed by the last three byte pairs in reverse order,
\* whatever other children the PolyStyle has.
C23_FillFromPolyStyleColour ==
    \A h \in KmlHandoffs :
        \A i \in 1..Len(handed[h].data.features) :
            LET kml == handed[h].task.body
                poly == StyleElement(kml, Origin(kml, i)).poly
                c == Trim(poly.color)
            IN  poly.present /\ IsHexText(c, 8)
                    => Get(handed[h].data.features[i].properties, "fill")
                           = JsStr("#" \o SubSeq(c, 7, 8) \o SubSeq(c, 5, 6) \o SubSeq(c, 3, 4))

\* the .kml files being read
KmlTexts == {task.body.text : task \in {t \in pending : t.kind = "kml"}}

\* C24: the namespace repair adds a default namespace declaration to the
\* root only when the document declares none, and the xsi declaration only
\* when schemaLocation is used without it; afterwards the root carries at
\* most one default namespace declaration and at most one xmlns:xsi
\* declaration, and a document that needed no repair is left unchanged.
C24_NamespacesAddedOnlyIfMissing ==
    \A kmlText \in KmlTexts :
        LET fixed == FixNamespaces(kmlText)
            declaresDefault == Includes(kmlText, " xmlns=")
            needsXsi == Includes(kmlText, "schemaLocation") /\ ~Includes(kmlText, " xmlns:xsi=")
        IN  /\ declaresDefault => CountOf(fixed, " xmlns=") = CountOf(kmlText, " xmlns=")
            /\ ~needsXsi => CountOf(fixed, " xmlns:xsi=") = CountOf(kmlText, " xmlns:xsi=")
            /\ CountOf(fixed, " xmlns=") <= 1
            /\ CountOf(fixed, " xmlns:xsi=") <= 1
            /\ declaresDefault /\ ~needsXsi => fixed = kmlText

\* C28: feature i of the converted collection is enriched only from the
\* Placemark it was converted from, also when some Placemark of the document
\* has no geometry and yields no feature.
C28_EnrichedFromOwnPlacemark ==
    \A h \in KmlHandoffs :
        \A i \in 1..Len(handed[h].data.features) :
            LET kml == handed[h].task.body
            IN  handed[h].data.features[i].properties
                    = PlacemarkProperties(kml, Origin(kml, i).properties, Origin(kml, i))

----------------------------------------------------------------------------
(* Claims about the category map (specification SpecCategories)            *)

\* C25: after any interleaving of upload completions, deletions and category
\* moves, the names of the category map are exactly the categories of the
\* layers in the store: every layer is listed and no category without
\* layers remains, also when a layer of a category is deleted while another
\* file of the same name is still being read.
C25_CategoriesMatchLayers ==
    CategoryNames(categories) = {layers[i].category : i \in 1..Len(layers)}

----------------------------------------------------------------------------
(* Claims about the layer store (specification Spec)                       *)

\* C26: whenever a layer is added while a colour of the predefined palette
\* is unused by the layers in the store, the new layer gets a colour that
\* no layer already in the store has, layers appended earlier by other
\* files of the same upload included.
C26_NewLayerColourUnused ==
    [][Len(layers') = Len(layers) + 1 /\ PredefinedColors \ LayerColors(layers) # {}
          => layers'[Len(layers')].color \notin LayerColors(layers)]_vars

----------------------------------------------------------------------------
(* Claims about the clearing of the CRS block (specification SpecGeo)      *)

\* the handoffs of documents that declared a reference system other than WGS84
DeclaredHandoffs ==
    {h \in 1..Len(handed) :
        /\ handed[h].task.kind \in {"geojson", "json"}
        /\ SourceCRS(handed[h].task.body.doc.crs) \notin {"", EPSG4326}}

\* every position of the coordinates is a pair of numbers that the
\* projection from `source` answers without throwing
Projects(source, coords) ==
    \A i \in 1..Len(coords.parts) : \A k \in 1..Len(coords.parts[i]) :
        LET pos == coords.parts[i][k]
        IN  /\ Len(pos) >= 2 /\ IsNumberType(pos[1]) /\ IsNumberType(pos[2])
            /\ ~Proj4ToWGS84(source, pos[1], pos[2]).threw

\* C27: in every collection handed over with its CRS block cleared after a
\* reference system other than WGS84 was declared, the coordinates of every
\* feature were replaced, by projected values or by the lon / lat
\* properties; when the declared system is not registered, so that no
\* coordinate could be projected, the CRS block is not cleared.
C27_ClearedOnlyWhenReplaced ==
    \A h \in DeclaredHandoffs :
        LET source == SourceCRS(handed[h].task.body.doc.crs)
            before == NormalizeShape(handed[h].task.body.doc).data.features
            after == handed[h].data.features
        IN  /\ ~handed[h].data.crs.present
                => \A i \in 1..Len(after) :
                      after[i].geometry.hasCoords
                          => \/ /\ TakesLonLat(before[i])
                                /\ after[i] = UseLonLat(before[i])
                             \/ /\ Projects(source, before[i].geometry.coordinates)
                                /\ after[i].geometry.coordinates
                                      = TransformCoordinates(source,
                                                             before[i].geometry.coordinates)
            /\ source \notin ProjDefs /\ (\A i \in 1..Len(before) : ~TakesLonLat(before[i]))
                => handed[h].data.crs.present

\* C29: after any sequence of selections, deletions, colour changes,
\* visibility toggles and additions, the selected layer is null or the
\* current version of a layer still in the store, with its id, colour and
\* visibility; after the selected layer is deleted no selection is left for
\* search, export or statistics to act on.
C29_SelectionIsCurrentLayer ==
    \/ selectedLayer.null
    \/ \E i \in 1..Len(layers) :
          /\ layers[i].id = selectedLayer.layer.id
          /\ layers[i].color = selectedLayer.layer.color
          /\ layers[i].visible = selectedLayer.layer.visible

----------------------------------------------------------------------------
(* Claims about the draw tool (specification SpecDraw)                     *)

\* a stroke is in progress
Stroke == isDrawing \/ currentPolyline # 0

\* the step is a mouseup on the map
IsMouseUp ==
    /\ pointer = [button |-> "pressed", onMap |-> TRUE]
    /\ pointer' = [button |-> "released", onMap |-> TRUE]

\* C30: a stroke is in progress (isDrawing true, a current polyline set)
\* only while the active tool is draw, and it ends with the next mouseup on
\* the map; dragging is disabled only while a stroke is in progress; after
\* a mouseup on the map or a change of the tool away from draw, dragging is
\* enabled and no stroke is left for a later mousemove to add points to.
C30_StrokeOnlyWhileDrawing ==
    [][/\ Stroke' => isDrawing' /\ currentPolyline' # 0 /\ activeTool' = "draw"
       /\ ~dragging' => Stroke'
       /\ activeTool' # "draw" => dragging'
       /\ IsMouseUp => dragging' /\ ~Stroke']_vars

====
